---- MODULE Spec2Model ----
(***************************************************************************)
(* Model of kimera-vio MeshOptimization (src/src/mesh/MeshOptimization.cpp)*)
(*                                                                         *)
(* Numbers.  Pixels and landmarks are exact rationals / integers: a pixel  *)
(* produced by a projection is kept in homogeneous form <<u, v, w>> and    *)
(* stands for the cv::Point2f (u/w, v/w); a mesh vertex position is the    *)
(* integer pair <<x, y>>.  All coordinates are small, so the float         *)
(* arithmetic of the source is exact on them.  The values computed by the  *)
(* linear solvers (y, psi, inverse depths) are not computed: a constraint  *)
(* is represented by the sample and the variables it couples.              *)
(***************************************************************************)
EXTENDS Integers, Sequences, FiniteSets, TLC

VARIABLES
  \* ---- MeshOptimization object (constructor, lines 42-49)
  mesh_optimizer_type_, debug_mode_,
  \* ---- process-wide function-local statics (lines 134 and 179)
  static_intrinsics_collect, static_intrinsics_solve,
  \* ---- arguments of the running solveOptimalMesh call
  noisy_point_cloud, camera_params, mesh_2d,
  \* ---- position in solveOptimalMesh and how it ended
  pc, abort_at,
  \* ---- collectTriangleDataPoints
  i, lmk, pixel, corresp, pixel_corresp, number_of_valid_datapoints,
  \* ---- triangle loop of solveOptimalMesh
  tri_idx, dp_idx, vtx_ids, vtx_ids_to_bearing_vectors, vtx_ids_to_pixels,
  factor_graph, vtx_ids_to_ys, n_datapoint, Y,
  \* ---- terminal solve and reconstruction
  adjacency_matrix, sp_i, sp_j, actual, n_solves, poly_k,
  reconstructed_mesh, window_calls, output,
  \* ---- application of the point-in-triangle classifier on its own
  g_pt, g_v1, g_v2, g_v3, g_d, g_result,
  \* ---- two runs of the program, one solveOptimalMesh call per step
  run_static, run_calls, run_last_in, run_last_out,
  \* ---- MonoVisionFrontEnd object (constructor, lines 800-825)
  frontend_state_, frame_count_, keyframe_count_, last_keyframe_timestamp_,
  mono_frame_k_, mono_frame_km1_, mono_frame_lkf_, keyframe_R_ref_frame_,
  tracker_status_summary_, tracker_params_,
  \* ---- the Frame objects the three shared pointers refer to
  heap,
  \* ---- position in nominalSpin / processFrame and how a spin ended
  fe_pc, fe_abort_at, fe_output,
  \* ---- arguments and locals of the running processFrame call
  cur_frame, keyframe_R_cur_frame, nr_valid_features, status_pose_mono,
  smart_mono_measurements,
  \* ---- history of the spins: members at processFrame entry, number of
  \* ---- spins, returned bootstrapSpin calls, pose of the last VALID result
  at_entry, n_spins, n_bootstrapped, last_valid_pose

objVars == <<mesh_optimizer_type_, debug_mode_>>
staticVars == <<static_intrinsics_collect, static_intrinsics_solve>>
argVars == <<noisy_point_cloud, camera_params, mesh_2d>>
collectVars == <<i, lmk, pixel, corresp, pixel_corresp,
                 number_of_valid_datapoints>>
triVars == <<tri_idx, dp_idx, vtx_ids, vtx_ids_to_bearing_vectors,
             vtx_ids_to_pixels, factor_graph, vtx_ids_to_ys, n_datapoint, Y>>
springVars == <<adjacency_matrix, sp_i, sp_j>>
solveVars == <<actual, n_solves, poly_k, reconstructed_mesh, output>>
callVars == <<objVars, staticVars, argVars, pc, abort_at, collectVars,
              triVars, springVars, solveVars, window_calls>>
geomVars == <<g_pt, g_v1, g_v2, g_v3, g_d, g_result>>
runVars == <<run_static, run_calls, run_last_in, run_last_out>>
memberVars == <<frontend_state_, frame_count_, keyframe_count_,
                last_keyframe_timestamp_, mono_frame_k_, mono_frame_km1_,
                mono_frame_lkf_, keyframe_R_ref_frame_,
                tracker_status_summary_, tracker_params_, heap>>
spinVars == <<fe_pc, fe_abort_at, fe_output, cur_frame, keyframe_R_cur_frame,
              nr_valid_features, status_pose_mono, smart_mono_measurements>>
historyVars == <<at_entry, n_spins, n_bootstrapped, last_valid_pose>>
frontendVars == <<memberVars, spinVars, historyVars>>
vars == <<callVars, geomVars, runVars, frontendVars>>

\* ------------------------------------------------------------------ bounds
\* largest number of columns (samples) of a point cloud
MaxCols == 5
\* pixel grid 0..GridMax x 0..GridMax for the classifier on its own
GridMax == 3
\* largest adjacency matrix dimension enumerated exhaustively
MaxDim == 4
\* calls per program run in the two-run comparison
MaxCalls == 2

\* ------------------------------------------------------------ small helpers
Sgn(x) == IF x > 0 THEN 1 ELSE IF x < 0 THEN -1 ELSE 0

Abs(x) == IF x < 0 THEN -x ELSE x

RECURSIVE Gcd(_, _)
Gcd(a, b) == IF b = 0 THEN a ELSE Gcd(b, a % b)

\* a unit vector is represented by the primitive integer vector of its
\* direction (normalisation keeps the direction and forgets the length)
Normalized(v) ==
  LET g == Gcd(Gcd(Abs(v[1]), Abs(v[2])), Abs(v[3]))
  IN IF g = 0 THEN v ELSE <<v[1] \div g, v[2] \div g, v[3] \div g>>

\* cv::Point2f of an integer vertex position
Hom(v) == <<v[1], v[2], 1>>

\* ------------------------------------------------- point-in-triangle (4.2)
\* float sign(p1,p2,p3) = (p1.x-p3.x)*(p2.y-p3.y) - (p2.x-p3.x)*(p1.y-p3.y)
\* on homogeneous points; the result is the float value multiplied by the
\* positive number |w1*w2|*w3^2, which keeps its sign and its zero.
sign(p1, p2, p3) ==
  LET n == (p1[1] * p3[3] - p3[1] * p1[3]) * (p2[2] * p3[3] - p3[2] * p2[3])
         - (p2[1] * p3[3] - p3[1] * p2[3]) * (p1[2] * p3[3] - p3[2] * p1[3])
  IN n * Sgn(p1[3]) * Sgn(p2[3])

\* plausible slip: only counter-clockwise triangles accepted (no has_pos)
pointInTriangle_oneOrientation(pt, v1, v2, v3) ==
  LET d1 == sign(pt, v1, v2)
      d2 == sign(pt, v2, v3)
      d3 == sign(pt, v3, v1)
  IN ~((d1 < 0) \/ (d2 < 0) \/ (d3 < 0))

pointInTriangle(pt, v1, v2, v3) ==
  LET d1 == sign(pt, v1, v2)
      d2 == sign(pt, v2, v3)
      d3 == sign(pt, v3, v1)
      has_neg == (d1 < 0) \/ (d2 < 0) \/ (d3 < 0)
      has_pos == (d1 > 0) \/ (d2 > 0) \/ (d3 > 0)
  IN ~(has_neg /\ has_pos)

\* ------------------------------------------------ camera projection (4.1)
\* gtsam::Cal3_S2(fx, fy, 0.0, cx, cy) from camera_params.intrinsics_
Cal3_S2(intrinsics_) ==
  [fx |-> intrinsics_[1], fy |-> intrinsics_[2], s |-> 0,
   u0 |-> intrinsics_[3], v0 |-> intrinsics_[4]]

\* extrinsics.transformTo(v) for a camera pose with identity rotation
transformTo(extrinsics, v) ==
  <<v[1] - extrinsics[1], v[2] - extrinsics[2], v[3] - extrinsics[3]>>

\* pixel = K * transformTo(lmk); returns (pixel.x/pixel.z, pixel.y/pixel.z)
generatePixelFromLandmarkGivenCamera(l, extrinsics, intrinsics) ==
  LET c == transformTo(extrinsics, l)
  IN <<intrinsics.fx * c[1] + intrinsics.s * c[2] + intrinsics.u0 * c[3],
       intrinsics.fy * c[2] + intrinsics.v0 * c[3],
       c[3]>>

\* intrinsics.calibrate(pixel.x, pixel.y, 1) then normalized()
getBearingVectorFrom2DPixel(intrinsics, px) ==
  Normalized(<<(px[1] - intrinsics.u0) * intrinsics.fy,
               (px[2] - intrinsics.v0) * intrinsics.fx,
               intrinsics.fx * intrinsics.fy>>)

\* ----------------------------------------------------------- Mesh2D (3.)
\* Mesh2D::VertexType: a LandmarkId and a 2D position
Vertex(l, x, y) == [lmk_id |-> l, pos |-> <<x, y>>]

\* adjacency matrix of dimension n with a 1 at (r, c) iff {r, c} is listed
AdjacencyOf(n, edges) ==
  [r \in 0 .. n - 1 |-> [c \in 0 .. n - 1 |->
     IF {r, c} \in edges THEN 1 ELSE 0]]

\* LandmarkId -> VertexId of the four vertices used by the meshes below
LmkToVtx == [l \in {10, 11, 12, 13} |-> l - 10]

Triangle0 == <<Vertex(10, 0, 0), Vertex(11, 4, 0), Vertex(12, 0, 4)>>

\* shares the edge (4,0)-(0,4) with Triangle0, opposite orientation
Triangle1 == <<Vertex(11, 4, 0), Vertex(12, 0, 4), Vertex(13, 4, 4)>>

\* a mesh without polygons (rejected by the input checks)
MeshEmpty ==
  [polygons |-> <<>>, nvtx |-> 0, lmk_to_vtx |-> [l \in {} |-> 0],
   adjacency |-> AdjacencyOf(0, {})]

MeshOne ==
  [polygons |-> <<Triangle0>>, nvtx |-> 3,
   lmk_to_vtx |-> [l \in {10, 11, 12} |-> LmkToVtx[l]],
   adjacency |-> AdjacencyOf(3, {{0, 1}, {1, 2}, {0, 2}})]

MeshTwo ==
  [polygons |-> <<Triangle0, Triangle1>>, nvtx |-> 4,
   lmk_to_vtx |-> LmkToVtx,
   adjacency |-> AdjacencyOf(4, {{0, 1}, {1, 2}, {0, 2}, {1, 3}, {2, 3}})]

\* same polygons; the adjacency matrix has no off-diagonal entry for vertex 3 and has
\* diagonal entries (the optimizer never checks the matrix against the
\* polygons)
MeshTwoSparse ==
  [polygons |-> <<Triangle0, Triangle1>>, nvtx |-> 4,
   lmk_to_vtx |-> LmkToVtx,
   adjacency |-> AdjacencyOf(4, {{0, 1}, {1, 2}, {0, 2}, {0}, {3}})]

\* three collinear vertices: the bearing vectors of the triangle are
\* coplanar, so every local 3x3 system of the triangle is singular
TriangleCollinear == <<Vertex(10, 0, 0), Vertex(11, 2, 2), Vertex(12, 4, 4)>>

MeshCollinear ==
  [polygons |-> <<TriangleCollinear>>, nvtx |-> 3,
   lmk_to_vtx |-> [l \in {10, 11, 12} |-> LmkToVtx[l]],
   adjacency |-> AdjacencyOf(3, {{0, 1}, {1, 2}, {0, 2}})]

Meshes == {MeshEmpty, MeshOne, MeshTwo, MeshTwoSparse, MeshCollinear}

getNumberOfPolygons(m) == Len(m.polygons)

getNumberOfUniqueVertices(m) == m.nvtx

\* polygon k, k counted from 0 as in the source
getPolygon(m, k) == m.polygons[k + 1]

getVtxIdForLmkId(m, l) == m.lmk_to_vtx[l]

getLmkIdForVtxId(m, v) ==
  CHOOSE l \in DOMAIN m.lmk_to_vtx : m.lmk_to_vtx[l] = v

getAdjacencyMatrix(m) == m.adjacency

\* ------------------------------------------------------- inputs of a call
\* CameraParams: intrinsics_ = (fx, fy, cx, cy), body_Pose_cam_ = translation
CamA == [intrinsics_ |-> <<1, 1, 0, 0>>, body_Pose_cam_ |-> <<0, 0, 0>>]

CamB == [intrinsics_ |-> <<2, 2, 1, 1>>, body_Pose_cam_ |-> <<1, 0, 0>>]

Cameras == {CamA, CamB}

\* point-cloud samples (cv::Point3f).  Under CamA they project to
\* (1,1) inside Triangle0, (2,2) on the shared edge, (3,3) inside
\* Triangle1, (5,1) outside the mesh and (3/2,1/2) inside Triangle0.
Landmarks == {<<1, 1, 1>>, <<2, 2, 1>>, <<3, 3, 1>>, <<5, 1, 1>>, <<3, 1, 2>>}

\* largest finite value of the float of the model.  The coordinates of the
\* model are scaled down, and so is its float range: a squared norm above
\* FltMax overflows to +inf, as one above FLT_MAX does in the source.
FltMax == 1000000

\* a sample so far away that lmk.dot(lmk) overflows; it projects to (1,1)
FarSample == <<1000, 1000, 1000>>

\* a sample behind the camera (depth -1); K * (x, y, z) / z is (1,1) too
BehindSample == <<-1, -1, -1>>

\* samples of the clouds with far and behind-the-camera points
OutlierLandmarks == {<<1, 1, 1>>, <<3, 3, 1>>, BehindSample, FarSample}

\* whole clouds for the comparison of two program runs
CallClouds ==
  {<<<<1, 1, 1>>, <<1, 1, 1>>, <<3, 1, 2>>, <<3, 1, 2>>>>,
   <<<<1, 1, 1>>, <<2, 2, 1>>, <<3, 3, 1>>, <<3, 3, 1>>>>,
   <<<<5, 1, 1>>, <<5, 1, 1>>, <<5, 1, 1>>, <<5, 1, 1>>>>}

\* arguments of one spinOnce call in that comparison
CallInputs ==
  [noisy_point_cloud : CallClouds, camera_params : Cameras,
   mesh_2d : {MeshOne, MeshTwoSparse}]

\* the pixel grid of the classifier on its own
Grid == (0 .. GridMax) \X (0 .. GridMax)

\* every symmetric 0/1 matrix of dimension n, diagonal included
SymmetricMatrices(n) ==
  {AdjacencyOf(n, edges) :
     edges \in SUBSET {{r, c} : r \in 0 .. n - 1, c \in 0 .. n - 1}}

Runs == {1, 2}

\* shape of the cv::Mat holding the cloud; the samples are read one by one
CloudShapes ==
  {[rows |-> 1, cols |-> c, channels |-> 3] : c \in 3 .. MaxCols}
  \cup {[rows |-> 2, cols |-> 4, channels |-> 3],
        [rows |-> 1, cols |-> 4, channels |-> 1]}

MeshOptimizerTypes ==
  {"kGtsamMesh", "kConnectedMesh", "kDisconnectedMesh", "kClosedForm",
   "kUnknown"}

\* ------------------------------------------------- data association (4.3)
\* plausible slip: the break of the scan is missing
scanTriangles_noBreak(px, m, k) ==
  {j \in k .. getNumberOfPolygons(m) - 1 :
     pointInTriangle(px,
                     Hom(getPolygon(m, j)[1].pos),
                     Hom(getPolygon(m, j)[2].pos),
                     Hom(getPolygon(m, j)[3].pos))}

\* the loop over k of collectTriangleDataPoints, from index k on: the set of
\* triangle indices under which the sample is recorded
RECURSIVE scanTriangles(_, _, _)
scanTriangles(px, m, k) ==
  IF k >= getNumberOfPolygons(m) THEN {}
  ELSE IF pointInTriangle(px,
                          Hom(getPolygon(m, k)[1].pos),
                          Hom(getPolygon(m, k)[2].pos),
                          Hom(getPolygon(m, k)[3].pos))
       THEN {k}
       ELSE scanTriangles(px, m, k + 1)

\* (*corresp)[k].push_back(...) for every k of ks
PushBack(table, ks, x) ==
  [k \in DOMAIN table |-> IF k \in ks THEN Append(table[k], x) ELSE table[k]]

\* corresp.size(): std::map entries exist only for triangles pushed to
MapSize(table) == Cardinality({k \in DOMAIN table : Len(table[k]) > 0})

EmptyTable(m) == [k \in 0 .. getNumberOfPolygons(m) - 1 |-> <<>>]

\* ------------------------------------------------------------- Mesh3D
\* Mesh3D::VertexType(lmk_id, depth * bearing): the depth is 1 / the solved
\* inverse depth of variable var
Vertex3D(l, bearing, var) == [lmk_id |-> l, bearing |-> bearing, var |-> var]

\* reconstructed_mesh.addPolygonToMesh(polygon)
addPolygonToMesh(mesh, polygon) == Append(mesh, polygon)

\* LandmarkIds of the vertices a Mesh3D holds
MeshLmkIds(mesh) ==
  {mesh[n][c].lmk_id : n \in DOMAIN mesh, c \in 1 .. 3}

\* Mesh3D::setVertexPosition(lmk_id, position): false for a LandmarkId the
\* mesh does not hold, otherwise the vertex is moved
setVertexPosition(mesh, l, bearing, var) ==
  IF l \notin MeshLmkIds(mesh)
  THEN [ok |-> FALSE, mesh |-> mesh]
  ELSE [ok |-> TRUE,
        mesh |-> [n \in DOMAIN mesh |-> [c \in 1 .. 3 |->
                    IF mesh[n][c].lmk_id = l
                    THEN Vertex3D(l, bearing, var) ELSE mesh[n][c]]]]

\* ------------------------------------------------------------ constraints
\* gtsam::JacobianFactor(i1, A1, i2, A2, i3, A3, b, noise): one per sample
DataFactor(keys, tri, sample) ==
  [kind |-> "data", keys |-> keys, tri |-> tri, sample |-> sample]

\* lmk.dot(lmk) of a cv::Point3f
SquaredNorm(l) == l[1] * l[1] + l[2] * l[2] + l[3] * l[3]

\* inv_depth_meas = 1.0 / std::sqrt(lmk.dot(lmk)) (line 309), as 0 or 1:
\* zero when the dot product overflowed to +inf, otherwise positive
inv_depth_meas(l) == IF SquaredNorm(l) > FltMax THEN 0 ELSE 1

\* gtsam::JacobianFactor(i1, A1, i2, A2, kSpringRestLength, noise)
SpringFactor(i1, i2) == [kind |-> "spring", keys |-> <<i1, i2>>]

\* keys of the variables of a factor graph (the keys of the VectorValues
\* that optimize() returns)
GraphKeys(graph) ==
  {graph[n].keys[c] : n \in DOMAIN graph, c \in 1 .. 2}
  \cup {graph[n].keys[Len(graph[n].keys)] : n \in DOMAIN graph}

\* a row of cv::Mat::zeros(...)
ZeroRow == [cols |-> {}, writes |-> 0, tri |-> -1, sample |-> -1]

\* vtx_ids_to_ys.at<float>(row, vtx_ids[c]) = y(c), c = 0..2
WriteRow(row, ids, tri, sample) ==
  [cols |-> row.cols \cup {ids[1], ids[2], ids[3]},
   writes |-> row.writes + 1, tri |-> tri, sample |-> sample]

\* --------------------------------------------------- statics and output
\* a function-local static before its initialisation
StaticUninitialized ==
  [initialized |-> FALSE, value |-> Cal3_S2(<<0, 0, 0, 0>>)]

\* static const T x(init): initialised the first time control passes the
\* declaration, never again
InitStatic(static, init) ==
  IF static.initialized THEN static
  ELSE [initialized |-> TRUE, value |-> init]

\* no MeshOptimizationOutput was returned
NoOutput == [returned |-> FALSE, optimized_mesh_3d |-> <<>>]

\* ------------------------------------------------------------------- Init
\* the locals of solveOptimalMesh before the call has started
CallLocalsInitial ==
  /\ abort_at = 0
  /\ i = 0 /\ lmk = <<0, 0, 0>> /\ pixel = <<0, 0, 0>>
  /\ corresp = <<>> /\ pixel_corresp = <<>>
  /\ number_of_valid_datapoints = 0
  /\ tri_idx = 0 /\ dp_idx = 0 /\ vtx_ids = <<>>
  /\ vtx_ids_to_bearing_vectors = <<>> /\ vtx_ids_to_pixels = <<>>
  /\ factor_graph = <<>> /\ vtx_ids_to_ys = <<>> /\ n_datapoint = 0
  /\ Y = <<>>
  /\ sp_i = 0 /\ sp_j = 0
  /\ actual = {} /\ n_solves = 0 /\ poly_k = 0
  /\ reconstructed_mesh = <<>> /\ window_calls = {} /\ output = NoOutput

\* no MonoVisionFrontEnd is running
FrontendIdle ==
  /\ frontend_state_ = "none" /\ frame_count_ = 0 /\ keyframe_count_ = 0
  /\ last_keyframe_timestamp_ = 0
  /\ mono_frame_k_ = 0 /\ mono_frame_km1_ = 0 /\ mono_frame_lkf_ = 0
  /\ keyframe_R_ref_frame_ = <<>> /\ tracker_status_summary_ = <<>>
  /\ tracker_params_ = <<>> /\ heap = <<>>
  /\ fe_pc = "off" /\ fe_abort_at = 0 /\ fe_output = <<>>
  /\ cur_frame = <<>> /\ keyframe_R_cur_frame = <<>>
  /\ nr_valid_features = 0 /\ status_pose_mono = <<>>
  /\ smart_mono_measurements = 0
  /\ at_entry = <<>> /\ n_spins = 0 /\ n_bootstrapped = 0
  /\ last_valid_pose = <<>>

\* no solveOptimalMesh call is modelled step by step
CallIdle ==
  /\ debug_mode_ = FALSE
  /\ static_intrinsics_collect = StaticUninitialized
  /\ static_intrinsics_solve = StaticUninitialized
  /\ noisy_point_cloud = [rows |-> 1, cols |-> 0, channels |-> 3]
  /\ camera_params = CamA /\ mesh_2d = MeshEmpty
  /\ CallLocalsInitial

GeomIdle ==
  /\ g_pt = <<0, 0>> /\ g_v1 = <<0, 0>> /\ g_v2 = <<0, 0>>
  /\ g_v3 = <<0, 0>> /\ g_d = <<>> /\ g_result = FALSE

RunIdle ==
  /\ run_static = <<>> /\ run_calls = <<>>
  /\ run_last_in = <<>> /\ run_last_out = <<>>

\* a constructed MeshOptimization and the arguments of spinOnce
Init ==
  /\ mesh_optimizer_type_ \in MeshOptimizerTypes
  /\ debug_mode_ \in BOOLEAN
  /\ static_intrinsics_collect = StaticUninitialized
  /\ static_intrinsics_solve = StaticUninitialized
  /\ noisy_point_cloud \in CloudShapes
  /\ camera_params \in Cameras
  /\ mesh_2d \in Meshes
  /\ pc = "start"
  /\ adjacency_matrix = AdjacencyOf(0, {})
  /\ CallLocalsInitial
  /\ GeomIdle /\ RunIdle /\ FrontendIdle

\* a failed glog CHECK / LOG(FATAL) at the given source line
Abort(line) == pc' = "aborted" /\ abort_at' = line

\* plausible slip: the channel count of the cloud is not checked
cloudChannelsOk_unchecked(cloud) == TRUE

\* CHECK_EQ(noisy_point_cloud.channels(), 3u), line 177
cloudChannelsOk(cloud) == cloud.channels = 3

\* ------------------------------------------ solveOptimalMesh, lines 169-194
StartSolve ==
  /\ pc = "start"
  /\ IF ~(getNumberOfPolygons(mesh_2d) > 0) THEN Abort(173)
     ELSE IF ~(getNumberOfUniqueVertices(mesh_2d) > 0) THEN Abort(174)
     ELSE IF noisy_point_cloud.rows # 1 THEN Abort(175)
     ELSE IF ~(noisy_point_cloud.cols > 3) THEN Abort(176)
     ELSE IF ~cloudChannelsOk(noisy_point_cloud) THEN Abort(177)
     ELSE pc' = "collect" /\ abort_at' = abort_at
  /\ IF pc' = "collect"
     THEN /\ static_intrinsics_solve' =
               InitStatic(static_intrinsics_solve,
                          Cal3_S2(camera_params.intrinsics_))
          /\ window_calls' =
               IF debug_mode_
               THEN window_calls
                    \cup {"drawPointCloud", "drawScene", "spinDisplay"}
               ELSE window_calls
          /\ corresp' = EmptyTable(mesh_2d)
          /\ pixel_corresp' = EmptyTable(mesh_2d)
     ELSE UNCHANGED <<static_intrinsics_solve, window_calls, corresp,
                      pixel_corresp>>
  /\ i' = 0 /\ number_of_valid_datapoints' = 0
  /\ UNCHANGED <<objVars, static_intrinsics_collect, argVars, lmk, pixel,
                 triVars, springVars, solveVars, geomVars, runVars,
                 frontendVars>>

\* plausible slip: the counter is incremented outside the if of the scan
countMatched_everySample(n, ks) == n + 1

\* ++(*number_of_valid_datapoints) of line 162, for the triangles ks under
\* which the sample was recorded
countMatched(n, ks) == n + Cardinality(ks)

\* ------------------- collectTriangleDataPoints, one sample (lines 125-166)
\* the sample noisy_point_cloud.at<cv::Point3f>(i) is one of samples
CollectFrom(samples) ==
  /\ pc = "collect"
  /\ i < noisy_point_cloud.cols
  /\ \E l \in samples :
       /\ lmk' = l
       /\ static_intrinsics_collect' =
            InitStatic(static_intrinsics_collect,
                       Cal3_S2(camera_params.intrinsics_))
       /\ pixel' = generatePixelFromLandmarkGivenCamera(
                     l, camera_params.body_Pose_cam_,
                     static_intrinsics_collect'.value)
       /\ LET ks == scanTriangles(pixel', mesh_2d, 0)
          IN /\ corresp' = PushBack(corresp, ks, l)
             /\ pixel_corresp' = PushBack(pixel_corresp, ks, pixel')
             /\ number_of_valid_datapoints' =
                  countMatched(number_of_valid_datapoints, ks)
  /\ i' = i + 1
  /\ UNCHANGED <<objVars, static_intrinsics_solve, argVars, pc, abort_at,
                 triVars, springVars, solveVars, window_calls, geomVars,
                 runVars,
                 frontendVars>>

CollectPoint == CollectFrom(Landmarks)

\* plausible slip: CHECK_GT(number_of_valid_datapoints, 2u)
enoughDatapoints_offByOne(n) == n > 2

\* CHECK_GT(number_of_valid_datapoints, 3u), line 208
enoughDatapoints(n) == n > 3

\* ---------- solveOptimalMesh after the association loop (lines 196-239)
CheckDatapoints ==
  /\ pc = "collect"
  /\ i >= noisy_point_cloud.cols
  /\ IF ~enoughDatapoints(number_of_valid_datapoints) THEN Abort(208)
     ELSE IF ~(MapSize(corresp) > 0) THEN Abort(209)
     ELSE pc' = "triangle" /\ abort_at' = abort_at
  /\ vtx_ids_to_ys' = [r \in 1 .. number_of_valid_datapoints |-> ZeroRow]
  /\ n_datapoint' = 0 /\ tri_idx' = 0
  /\ UNCHANGED <<objVars, staticVars, argVars, collectVars, dp_idx, vtx_ids,
                 vtx_ids_to_bearing_vectors, vtx_ids_to_pixels, factor_graph,
                 Y, springVars, solveVars, window_calls, geomVars, runVars,
                 frontendVars>>

\* plausible slip: a triangle with exactly 3 samples is skipped as well
underConstrained_atThree(n) == n <= 3

\* plausible slip: the skip of under-constrained triangles is missing
underConstrained_never(n) == FALSE

\* if (triangle_datapoints.size() < 3) continue;  (line 298)
underConstrained(n) == n < 3

\* vtx_ids_to_bearing_vectors[vtx_id] = ... for the three vertices of a
\* polygon, in polygon order (a later vertex overwrites an earlier one)
CacheVertices(cache, ids, vals) ==
  [v \in DOMAIN cache \cup {ids[1], ids[2], ids[3]} |->
     IF v = ids[3] THEN vals[3]
     ELSE IF v = ids[2] THEN vals[2]
     ELSE IF v = ids[1] THEN vals[1]
     ELSE cache[v]]

\* std::unordered_map::operator[] of the bearing-vector cache
BearingOf(cache, v) == IF v \in DOMAIN cache THEN cache[v] ELSE <<0, 0, 0>>

\* ---------------- triangle loop, head of one iteration (lines 240-304)
TriangleBegin ==
  /\ pc = "triangle"
  /\ tri_idx < getNumberOfPolygons(mesh_2d)
  /\ LET polygon_2d == getPolygon(mesh_2d, tri_idx)
         ids == [c \in 1 .. 3 |->
                   getVtxIdForLmkId(mesh_2d, polygon_2d[c].lmk_id)]
         triangle_bearing_vectors ==
           [c \in 1 .. 3 |->
              getBearingVectorFrom2DPixel(static_intrinsics_solve.value,
                                          polygon_2d[c].pos)]
         pixels == [c \in 1 .. 3 |-> polygon_2d[c].pos]
     IN /\ vtx_ids' = ids
        /\ vtx_ids_to_bearing_vectors' =
             CacheVertices(vtx_ids_to_bearing_vectors, ids,
                           triangle_bearing_vectors)
        /\ vtx_ids_to_pixels' = CacheVertices(vtx_ids_to_pixels, ids, pixels)
  /\ window_calls' =
       IF debug_mode_ THEN window_calls \cup {"drawArrow"} ELSE window_calls
  /\ IF underConstrained(Len(corresp[tri_idx]))
     THEN /\ tri_idx' = tri_idx + 1
          /\ UNCHANGED <<pc, dp_idx, Y>>
     ELSE /\ pc' = "datapoint"
          /\ dp_idx' = 0
          /\ Y' = <<>>
          /\ UNCHANGED tri_idx
  /\ UNCHANGED <<objVars, staticVars, argVars, abort_at, collectVars,
                 factor_graph, vtx_ids_to_ys, n_datapoint, springVars,
                 solveVars, geomVars, runVars,
                 frontendVars>>

\* determinant of the 3x3 matrix with columns a, b, c
Det3(a, b, c) ==
  a[1] * (b[2] * c[3] - b[3] * c[2])
  - a[2] * (b[1] * c[3] - b[3] * c[1])
  + a[3] * (b[1] * c[2] - b[2] * c[1])

\* the bool that cv::solve(A, b, y) of line 369 returns (DECOMP_LU): false
\* when A = [bearing0 bearing1 bearing2] is singular
cv_solve(bearing_vectors, ids) ==
  Det3(bearing_vectors[ids[1]], bearing_vectors[ids[2]],
       bearing_vectors[ids[3]]) # 0

\* --------- one sample of a triangle (lines 306-350 and 356-399).
\* The value cv::solve returns at line 369 is discarded: the row of y is
\* written whether or not the local system could be solved.
Datapoint ==
  /\ pc = "datapoint"
  /\ dp_idx < Len(corresp[tri_idx])
  /\ dp_idx' = dp_idx + 1
  /\ CASE mesh_optimizer_type_ = "kGtsamMesh" ->
            /\ factor_graph' =
                 Append(factor_graph, DataFactor(vtx_ids, tri_idx, dp_idx))
            /\ UNCHANGED <<vtx_ids_to_ys, n_datapoint, Y, pc, abort_at>>
       [] mesh_optimizer_type_ = "kConnectedMesh" ->
            /\ vtx_ids_to_ys' =
                 [vtx_ids_to_ys EXCEPT ![n_datapoint + 1] =
                    WriteRow(@, vtx_ids, tri_idx, dp_idx)]
            /\ n_datapoint' = n_datapoint + 1
            /\ UNCHANGED <<factor_graph, Y, pc, abort_at>>
       [] mesh_optimizer_type_ = "kDisconnectedMesh" ->
            /\ Y' = Append(Y, [tri |-> tri_idx, sample |-> dp_idx])
            /\ UNCHANGED <<factor_graph, vtx_ids_to_ys, n_datapoint, pc,
                           abort_at>>
       [] mesh_optimizer_type_ = "kClosedForm" ->
            UNCHANGED <<factor_graph, vtx_ids_to_ys, n_datapoint, Y, pc,
                        abort_at>>
       [] OTHER ->
            /\ Abort(395)
            /\ UNCHANGED <<factor_graph, vtx_ids_to_ys, n_datapoint, Y>>
  /\ UNCHANGED <<objVars, staticVars, argVars, collectVars, tri_idx, vtx_ids,
                 vtx_ids_to_bearing_vectors, vtx_ids_to_pixels, springVars,
                 solveVars, window_calls, geomVars, runVars,
                 frontendVars>>

\* plausible slip: the system is solved at the end of every triangle
TriangleEnd_solvesPerTriangle ==
  /\ pc = "datapoint"
  /\ dp_idx >= Len(corresp[tri_idx])
  /\ tri_idx' = tri_idx + 1
  /\ pc' = "triangle"
  /\ n_solves' = n_solves + 1
  /\ actual' = GraphKeys(factor_graph)
  /\ UNCHANGED <<objVars, staticVars, argVars, abort_at, collectVars,
                 dp_idx, vtx_ids, vtx_ids_to_bearing_vectors,
                 vtx_ids_to_pixels, factor_graph, vtx_ids_to_ys, n_datapoint,
                 Y, springVars, poly_k, reconstructed_mesh, output,
                 window_calls, geomVars, runVars,
                 frontendVars>>

\* ---- end of the sample loop: break out of the switch (lines 352, 400).
\* The block of lines 414-443 (per-triangle solve of Y and
\* addPolygonToMesh for kDisconnectedMesh) sits inside the switch after the
\* break of the default label and under no case label: it is never
\* executed, so the iteration ends here.
TriangleEnd ==
  /\ pc = "datapoint"
  /\ dp_idx >= Len(corresp[tri_idx])
  /\ tri_idx' = tri_idx + 1
  /\ pc' = "triangle"
  /\ UNCHANGED <<objVars, staticVars, argVars, abort_at, collectVars,
                 dp_idx, vtx_ids, vtx_ids_to_bearing_vectors,
                 vtx_ids_to_pixels, factor_graph, vtx_ids_to_ys, n_datapoint,
                 Y, springVars, solveVars, window_calls, geomVars, runVars,
                 frontendVars>>

\* ---- after the triangle loop: lines 448-465 and the dispatch of the
\* final switch
TrianglesDone ==
  /\ pc = "triangle"
  /\ tri_idx >= getNumberOfPolygons(mesh_2d)
  /\ window_calls' =
       IF mesh_optimizer_type_ = "kDisconnectedMesh" /\ debug_mode_
       THEN window_calls \cup {"draw3dMesh", "spinDisplay"}
       ELSE window_calls
  /\ CASE mesh_optimizer_type_ = "kGtsamMesh" ->
            /\ adjacency_matrix' = getAdjacencyMatrix(mesh_2d)
            /\ sp_i' = 0 /\ sp_j' = 0
            /\ pc' = "springs"
            /\ UNCHANGED abort_at
       [] mesh_optimizer_type_ = "kConnectedMesh" ->
            /\ pc' = "connected_solve"
            /\ UNCHANGED <<springVars, abort_at>>
       [] mesh_optimizer_type_ \in {"kDisconnectedMesh", "kClosedForm"} ->
            /\ pc' = "finish"
            /\ UNCHANGED <<springVars, abort_at>>
       [] OTHER ->
            /\ Abort(628)
            /\ UNCHANGED springVars
  /\ UNCHANGED <<objVars, staticVars, argVars, collectVars, triVars,
                 solveVars, geomVars, runVars,
                 frontendVars>>

\* plausible slip: the diagonal is taken into the lower half
inLowerHalf_withDiagonal(ii, jj) == jj <= ii

\* if (j < i)  (line 482)
inLowerHalf(ii, jj) == jj < ii

\* adjacency_matrix.rows / .cols of the square matrix
MatDim(adj) == Cardinality(DOMAIN adj)

\* ------------- spring factors, one step of the inner loop (lines 479-495)
SpringStep ==
  /\ pc = "springs"
  /\ sp_i < MatDim(adjacency_matrix)
  /\ IF sp_j >= MatDim(adjacency_matrix)
     THEN \* inner loop ran off the row without a break
          /\ sp_i' = sp_i + 1 /\ sp_j' = 0
          /\ UNCHANGED <<factor_graph, pc, abort_at>>
     ELSE IF inLowerHalf(sp_i, sp_j)
     THEN /\ factor_graph' =
               IF adjacency_matrix[sp_i][sp_j] = 1
               THEN Append(factor_graph, SpringFactor(sp_i, sp_j))
               ELSE factor_graph
          /\ sp_j' = sp_j + 1
          /\ UNCHANGED <<sp_i, pc, abort_at>>
     ELSE IF sp_j # sp_i
     THEN \* CHECK_EQ(j, i) fails
          /\ Abort(490)
          /\ UNCHANGED <<factor_graph, sp_i, sp_j>>
     ELSE \* break
          /\ sp_i' = sp_i + 1 /\ sp_j' = 0
          /\ UNCHANGED <<factor_graph, pc, abort_at>>
  /\ UNCHANGED <<objVars, staticVars, argVars, collectVars, tri_idx, dp_idx,
                 vtx_ids, vtx_ids_to_bearing_vectors, vtx_ids_to_pixels,
                 vtx_ids_to_ys, n_datapoint, Y, adjacency_matrix, solveVars,
                 window_calls, geomVars, runVars,
                 frontendVars>>

\* keys of one factor
FactorKeys(f) == {f.keys[c] : c \in 1 .. Len(f.keys)}

\* the variables coupled, through any chain of factors, to those of S
RECURSIVE Component(_, _)
Component(graph, S) ==
  LET S2 == S \cup {k \in GraphKeys(graph) :
                      \E n \in DOMAIN graph :
                        /\ k \in FactorKeys(graph[n])
                        /\ FactorKeys(graph[n]) \cap S # {}}
  IN IF S2 = S THEN S ELSE Component(graph, S2)

\* a group of coupled variables held by spring factors only: the springs
\* fix differences of inverse depths, so the linear system of the graph
\* has no unique solution
graphIndeterminate(graph) ==
  \E k \in GraphKeys(graph) :
    \A n \in DOMAIN graph :
      FactorKeys(graph[n]) \cap Component(graph, {k}) # {}
        => graph[n].kind = "spring"

\* actual.at(gtsam::Key(v))[0] (line 539) as 0 or 1.  When every data
\* factor coupled to v measured a zero inverse depth, every right-hand side
\* of that part of the system is zero (the rest length of a spring is 0) and
\* so is its solution; any other solution is taken to be non-zero.
inv_depth(graph, table, v) ==
  LET data == {n \in DOMAIN graph :
                 /\ graph[n].kind = "data"
                 /\ FactorKeys(graph[n]) \cap Component(graph, {v}) # {}}
  IN IF /\ data # {}
        /\ \A n \in data :
             inv_depth_meas(table[graph[n].tri][graph[n].sample + 1]) = 0
     THEN 0 ELSE 1

\* ------ factor_graph.optimize(boost::none, EliminateQR) (lines 498-504).
\* On an indeterminate graph the elimination either throws
\* gtsam::IndeterminantLinearSystemException, which nothing in
\* solveOptimalMesh or spinOnce catches, or returns the values of a
\* numerically regularised system, depending on rounding.
Optimize ==
  /\ pc = "springs"
  /\ sp_i >= MatDim(adjacency_matrix)
  /\ \E throws \in (IF graphIndeterminate(factor_graph)
                     THEN BOOLEAN ELSE {FALSE}) :
       IF throws
       THEN /\ Abort(501)
            /\ UNCHANGED <<actual, n_solves, poly_k>>
       ELSE /\ actual' = GraphKeys(factor_graph)
            /\ n_solves' = n_solves + 1
            /\ poly_k' = 0
            /\ pc' = "reconstruct"
            /\ UNCHANGED abort_at
  /\ UNCHANGED <<objVars, staticVars, argVars, collectVars,
                 triVars, springVars, reconstructed_mesh, output,
                 window_calls, geomVars, runVars,
                 frontendVars>>

\* plausible slip: the polygon is added whether or not add_poly is set
vertexSolved_always(values, v) == TRUE

\* actual.exists(gtsam::Key(vtx_id))  (line 534)
vertexSolved(values, v) == v \in values

\* const LandmarkId& lmk_id = vtx_2d.getLmkId();  (line 531)
outputLmkId(m, vtx) == vtx.lmk_id

\* ----- kGtsamMesh reconstruction of one input polygon (lines 525-581)
ReconstructPolygon ==
  /\ pc = "reconstruct"
  /\ poly_k < getNumberOfPolygons(mesh_2d)
  /\ LET poly_2d == getPolygon(mesh_2d, poly_k)
         vid(c) == getVtxIdForLmkId(mesh_2d, poly_2d[c].lmk_id)
         \* vertices handled before the loop breaks (all 3 if none fails)
         unsolved == {c \in 1 .. 3 : ~vertexSolved(actual, vid(c))}
         add_poly == unsolved = {}
         handled == {c \in 1 .. 3 : \A b \in unsolved : c < b}
         poly_3d == [c \in 1 .. 3 |->
                       Vertex3D(outputLmkId(mesh_2d, poly_2d[c]),
                                BearingOf(vtx_ids_to_bearing_vectors, vid(c)),
                                vid(c))]
     IN /\ window_calls' =
             IF handled # {} THEN window_calls \cup {"drawCylinder"}
             ELSE window_calls
        /\ reconstructed_mesh' =
             IF add_poly THEN addPolygonToMesh(reconstructed_mesh, poly_3d)
             ELSE reconstructed_mesh
  /\ poly_k' = poly_k + 1
  /\ pc' = IF poly_k' < getNumberOfPolygons(mesh_2d)
           THEN "reconstruct" ELSE "finish"
  /\ UNCHANGED <<objVars, staticVars, argVars, abort_at, collectVars,
                 triVars, springVars, actual, n_solves, output, geomVars,
                 runVars,
                 frontendVars>>

\* the bool that cv::solve(vtx_ids_to_ys, ones, psi, cv::DECOMP_QR) of line
\* 595 returns: false when a column of the matrix was never written, which
\* leaves the least-squares system without a unique solution
cv_solve_QR(matrix, ncols) ==
  \A v \in 0 .. ncols - 1 :
    \E n \in DOMAIN matrix : matrix[n].writes > 0 /\ v \in matrix[n].cols

\* ------ cv::solve(vtx_ids_to_ys, ones, psi, DECOMP_QR) (lines 585-596).
\* The value cv::solve returns is discarded; psi has one row per column of
\* the matrix either way.
ConnectedSolve ==
  /\ pc = "connected_solve"
  /\ actual' = 0 .. getNumberOfUniqueVertices(mesh_2d) - 1
  /\ n_solves' = n_solves + 1
  /\ poly_k' = 0
  /\ pc' = "connected_reconstruct"
  /\ UNCHANGED <<objVars, staticVars, argVars, abort_at, collectVars,
                 triVars, springVars, reconstructed_mesh, output,
                 window_calls, geomVars, runVars,
                 frontendVars>>

\* ------ kConnectedMesh reconstruction of one vertex (lines 603-615)
ConnectedVertex ==
  /\ pc = "connected_reconstruct"
  /\ IF poly_k >= Cardinality(actual)
     THEN /\ pc' = "finish"
          /\ UNCHANGED <<abort_at, reconstructed_mesh, poly_k, window_calls>>
     ELSE LET vtx_id == poly_k
              lmk_id == getLmkIdForVtxId(mesh_2d, vtx_id)
              set == setVertexPosition(
                       reconstructed_mesh, lmk_id,
                       BearingOf(vtx_ids_to_bearing_vectors, vtx_id), vtx_id)
          IN IF ~set.ok
             THEN /\ Abort(609)
                  /\ UNCHANGED <<reconstructed_mesh, poly_k, window_calls>>
             ELSE /\ reconstructed_mesh' = set.mesh
                  /\ poly_k' = poly_k + 1
                  /\ window_calls' =
                       IF debug_mode_
                       THEN window_calls \cup {"drawPixelOnImg"}
                       ELSE window_calls
                  /\ UNCHANGED <<pc, abort_at>>
  /\ UNCHANGED <<objVars, staticVars, argVars, collectVars, triVars,
                 springVars, actual, n_solves, output, geomVars, runVars,
                 frontendVars>>

\* ------------------ end of solveOptimalMesh (lines 633-642)
Finish ==
  /\ pc = "finish"
  /\ window_calls' =
       IF debug_mode_ THEN window_calls \cup {"draw3dMesh", "spinDisplay"}
       ELSE window_calls
  /\ output' = [returned |-> TRUE, optimized_mesh_3d |-> reconstructed_mesh]
  /\ pc' = "done"
  /\ UNCHANGED <<objVars, staticVars, argVars, abort_at, collectVars,
                 triVars, springVars, actual, n_solves, poly_k,
                 reconstructed_mesh, geomVars, runVars,
                 frontendVars>>

Next ==
  \/ StartSolve
  \/ CollectPoint
  \/ CheckDatapoints
  \/ TriangleBegin
  \/ Datapoint
  \/ TriangleEnd
  \/ TrianglesDone
  \/ SpringStep
  \/ Optimize
  \/ ReconstructPolygon
  \/ ConnectedSolve
  \/ ConnectedVertex
  \/ Finish

Spec == Init /\ [][Next]_vars

TypeOK ==
  /\ pc \in {"start", "collect", "triangle", "datapoint", "springs",
             "reconstruct", "connected_solve", "connected_reconstruct",
             "finish", "done", "aborted"}
  /\ (pc = "aborted") = (abort_at # 0)
  /\ output.returned = (pc = "done")

\* ======================================================== properties
NumPolygons == getNumberOfPolygons(mesh_2d)

PolygonIndices == 0 .. NumPolygons - 1

\* pointInTriangle(px, polygon k)
Contains(k, px) ==
  pointInTriangle(px,
                  Hom(getPolygon(mesh_2d, k)[1].pos),
                  Hom(getPolygon(mesh_2d, k)[2].pos),
                  Hom(getPolygon(mesh_2d, k)[3].pos))

\* the three VertexIds of input polygon k
PolygonVtxIds(k) ==
  [c \in 1 .. 3 |-> getVtxIdForLmkId(mesh_2d, getPolygon(mesh_2d, k)[c].lmk_id)]

\* C1: data association is first-match-wins.  Every step of the association
\* loop records the sample and its pixel under exactly the lowest triangle
\* index whose polygon contains the pixel (pointInTriangle true), under no
\* other index, and under none at all when no polygon contains the pixel;
\* so a pixel on an edge shared by two triangles goes to the lower index.
C1_FirstMatchWins ==
  [][(pc = "collect" /\ i' = i + 1) =>
       LET matches == {k \in PolygonIndices : Contains(k, pixel')}
       IN IF matches = {}
          THEN /\ corresp' = corresp
               /\ pixel_corresp' = pixel_corresp
               /\ number_of_valid_datapoints' = number_of_valid_datapoints
          ELSE LET first == CHOOSE k \in matches : \A j \in matches : k <= j
               IN /\ corresp' =
                       [corresp EXCEPT ![first] = Append(@, lmk')]
                  /\ pixel_corresp' =
                       [pixel_corresp EXCEPT ![first] = Append(@, pixel')]
                  /\ number_of_valid_datapoints' =
                       number_of_valid_datapoints + 1]_vars

\* a pixel on the edge shared by both triangles was recorded under
\* triangle 0 and not under triangle 1
C1_Witness ==
  /\ pc = "collect" /\ i > 0 /\ NumPolygons = 2
  /\ Contains(0, pixel) /\ Contains(1, pixel)
  /\ Len(pixel_corresp[0]) > 0
  /\ pixel_corresp[0][Len(pixel_corresp[0])] = pixel
  /\ corresp[0][Len(corresp[0])] = lmk
  /\ pixel_corresp[1] = <<>>

\* number of triangles that had at least 3 associated samples
NonDegenerateTriangles ==
  Cardinality({k \in PolygonIndices : Len(corresp[k]) >= 3})

\* C3: when solveOptimalMesh completes with strategy kDisconnectedMesh the
\* returned mesh contains exactly 3 x (number of triangles with at least 3
\* associated samples) vertices.
C3_DisconnectedVertexCount ==
  (pc = "done" /\ mesh_optimizer_type_ = "kDisconnectedMesh") =>
    /\ Len(output.optimized_mesh_3d) = NonDegenerateTriangles
    /\ Cardinality(MeshLmkIds(output.optimized_mesh_3d))
         = 3 * NonDegenerateTriangles

\* input polygon k appears in a Mesh3D with the same LandmarkIds
AppearsIn(mesh, k) ==
  \E n \in DOMAIN mesh :
    \A c \in 1 .. 3 : mesh[n][c].lmk_id = getPolygon(mesh_2d, k)[c].lmk_id

\* every LandmarkId of a Mesh3D has one position
OnePositionPerVertex(mesh) ==
  \A n1, n2 \in DOMAIN mesh : \A c1, c2 \in 1 .. 3 :
    mesh[n1][c1].lmk_id = mesh[n2][c2].lmk_id => mesh[n1][c1] = mesh[n2][c2]

RECURSIVE SolvedPolygons(_)
SolvedPolygons(n) ==
  IF n = 0 THEN <<>>
  ELSE IF \A c \in 1 .. 3 : PolygonVtxIds(n - 1)[c] \in actual
       THEN Append(SolvedPolygons(n - 1), n - 1)
       ELSE SolvedPolygons(n - 1)

C6_InsufficientDataAborts ==
  (/\ pc \notin {"start"}
   /\ abort_at \notin 173 .. 177
   /\ i >= noisy_point_cloud.cols
   /\ (number_of_valid_datapoints < 4 \/ MapSize(corresp) = 0)) =>
    /\ pc \in {"collect", "aborted"}
    /\ pc = "aborted" => abort_at \in {208, 209}
    /\ ~output.returned
    /\ reconstructed_mesh = <<>> /\ factor_graph = <<>> /\ n_solves = 0

\* a cloud that projects entirely outside the mesh made the call abort
C6_Witness ==
  /\ pc = "aborted" /\ abort_at = 208
  /\ i = noisy_point_cloud.cols
  /\ number_of_valid_datapoints = 0

\* data constraints that sample smp of triangle k has put into the system
\* of the configured strategy
ConstraintsOf(k, smp) ==
  CASE mesh_optimizer_type_ = "kGtsamMesh" ->
         Cardinality({n \in DOMAIN factor_graph :
                        /\ factor_graph[n].kind = "data"
                        /\ factor_graph[n].tri = k
                        /\ factor_graph[n].sample = smp})
    [] mesh_optimizer_type_ = "kConnectedMesh" ->
         Cardinality({n \in DOMAIN vtx_ids_to_ys :
                        /\ vtx_ids_to_ys[n].writes > 0
                        /\ vtx_ids_to_ys[n].tri = k
                        /\ vtx_ids_to_ys[n].sample = smp})
    [] mesh_optimizer_type_ = "kDisconnectedMesh" ->
         Cardinality({n \in DOMAIN Y : Y[n].tri = k /\ Y[n].sample = smp})
    [] OTHER -> 0

\* all data constraints in any of the three systems
AllConstraintTriangles ==
  {factor_graph[n].tri :
     n \in {m \in DOMAIN factor_graph : factor_graph[m].kind = "data"}}
  \cup {vtx_ids_to_ys[n].tri :
          n \in {m \in DOMAIN vtx_ids_to_ys : vtx_ids_to_ys[m].writes > 0}}
  \cup {Y[n].tri : n \in DOMAIN Y}

ThreeVariants == {"kGtsamMesh", "kConnectedMesh", "kDisconnectedMesh"}

\* one step of the call, as C7 constrains it
C7_Step ==
  /\ (pc = "triangle" /\ tri_idx < NumPolygons) =>
      IF Len(corresp[tri_idx]) < 3
      THEN /\ pc' = "triangle" /\ tri_idx' = tri_idx + 1
           /\ abort_at' = 0
           /\ UNCHANGED <<factor_graph, vtx_ids_to_ys, n_datapoint, Y,
                          n_solves>>
      ELSE /\ pc' = "datapoint" /\ tri_idx' = tri_idx /\ dp_idx' = 0
  /\ (pc = "datapoint" /\ pc' = "triangle"
      /\ mesh_optimizer_type_ \in ThreeVariants) =>
      \A smp \in 0 .. Len(corresp[tri_idx]) - 1 :
        ConstraintsOf(tri_idx, smp) = 1
  /\ (pc' \in {"triangle", "datapoint"}) =>
      \A k \in AllConstraintTriangles' : Len(corresp[k]) >= 3

\* C7: a triangle with fewer than 3 associated samples is skipped: the
\* iteration changes no factor, no row of the global matrix and no
\* per-triangle matrix, does not abort, and the loop goes on with the next
\* triangle; a triangle with 3 or more samples enters the sample loop, and
\* when it leaves it every one of its samples has put exactly one
\* constraint into the system.  No constraint ever belongs to a triangle
\* with fewer than 3 samples.
C7_SkipDegenerateTriangle ==
  [][C7_Step]_vars

\* the loop is over: triangle 0 (2 samples) was skipped, triangle 1
\* (exactly 3 samples) was not and put its 3 factors into the graph
C7_Witness ==
  /\ pc = "triangle" /\ NumPolygons = 2 /\ tri_idx = 2
  /\ mesh_optimizer_type_ = "kGtsamMesh"
  /\ Len(corresp[0]) = 2 /\ Len(corresp[1]) = 3
  /\ Len(factor_graph) = 3
  /\ \A n \in 1 .. 3 : factor_graph[n].tri = 1

\* every sample of every triangle with at least 3 samples has exactly one
\* constraint in the system of the configured strategy
ConstraintsComplete ==
  \A k \in PolygonIndices :
    Len(corresp[k]) >= 3 =>
      \A smp \in 0 .. Len(corresp[k]) - 1 : ConstraintsOf(k, smp) = 1

\* one step of the call, as C9 constrains it
C9_Step ==
  /\ n_solves' <= 1
  /\ (n_solves' # n_solves) =>
       /\ mesh_optimizer_type_ \in {"kGtsamMesh", "kConnectedMesh"}
       /\ tri_idx = NumPolygons
       /\ pc \notin {"triangle", "datapoint"}
       /\ ConstraintsComplete
  /\ (n_solves = 1) =>
       UNCHANGED <<factor_graph, vtx_ids_to_ys, n_datapoint>>
  /\ (/\ mesh_optimizer_type_ \in {"kGtsamMesh", "kConnectedMesh"}
      /\ pc' \in {"reconstruct", "connected_reconstruct", "finish",
                  "done"}) => n_solves' = 1

\* C9: in the connected and factor-graph variants the global solve runs
\* once per call, after the loop over all triangles has finished and with
\* every constraint of every non-skipped triangle in the system; nothing
\* is added to the system after the solve, and a call of these variants
\* that gets to the reconstruction has solved exactly once.
C9_SolveOnceAfterLoop ==
  [][C9_Step]_vars

\* a factor-graph call returned after one solve of a graph that holds data
\* factors and spring factors
C9_Witness ==
  /\ pc = "done" /\ mesh_optimizer_type_ = "kGtsamMesh"
  /\ n_solves = 1
  /\ \E n \in DOMAIN factor_graph : factor_graph[n].kind = "data"
  /\ \E n \in DOMAIN factor_graph : factor_graph[n].kind = "spring"

\* ================================== the classifier on its own (C2)
InitGeom ==
  /\ g_pt \in Grid /\ g_v1 \in Grid /\ g_v2 \in Grid /\ g_v3 \in Grid
  /\ g_d = <<>> /\ g_result = FALSE
  /\ mesh_optimizer_type_ = "kGtsamMesh" /\ pc = "idle"
  /\ adjacency_matrix = AdjacencyOf(0, {})
  /\ CallIdle /\ RunIdle /\ FrontendIdle

\* pointInTriangle(pt, v1, v2, v3), lines 693-708
ClassifyPoint ==
  /\ g_d = <<>>
  /\ g_d' = <<sign(Hom(g_pt), Hom(g_v1), Hom(g_v2)),
              sign(Hom(g_pt), Hom(g_v2), Hom(g_v3)),
              sign(Hom(g_pt), Hom(g_v3), Hom(g_v1))>>
  /\ g_result' = pointInTriangle(Hom(g_pt), Hom(g_v1), Hom(g_v2), Hom(g_v3))
  /\ UNCHANGED <<callVars, g_pt, g_v1, g_v2, g_v3, runVars,
                 frontendVars>>

NextGeom == ClassifyPoint

SpecGeom == InitGeom /\ [][NextGeom]_vars

\* twice the signed area of (a, b, c)
Cross(a, b, c) ==
  (b[1] - a[1]) * (c[2] - a[2]) - (b[2] - a[2]) * (c[1] - a[1])

\* p lies on the closed segment a-b
OnSegment(p, a, b) ==
  /\ Cross(a, b, p) = 0
  /\ (a[1] - p[1]) * (b[1] - p[1]) + (a[2] - p[2]) * (b[2] - p[2]) <= 0

OnBoundary(p, a, b, c) ==
  OnSegment(p, a, b) \/ OnSegment(p, b, c) \/ OnSegment(p, c, a)

\* p is strictly on the same side of every edge as the opposite vertex
StrictlyInside(p, a, b, c) ==
  /\ Cross(a, b, p) * Cross(a, b, c) > 0
  /\ Cross(b, c, p) * Cross(b, c, a) > 0
  /\ Cross(c, a, p) * Cross(c, a, b) > 0

\* C2: for every non-degenerate triangle of the grid, in either
\* orientation, and every grid point p: pointInTriangle is true when p is
\* strictly inside, true when p is on an edge or a vertex, false when p is
\* strictly outside; and it is true iff the three edge signs are not of
\* mixed sign.
C2_PointInTriangle ==
  (g_d # <<>> /\ Cross(g_v1, g_v2, g_v3) # 0) =>
    /\ StrictlyInside(g_pt, g_v1, g_v2, g_v3) => g_result
    /\ OnBoundary(g_pt, g_v1, g_v2, g_v3) => g_result
    /\ (~StrictlyInside(g_pt, g_v1, g_v2, g_v3)
        /\ ~OnBoundary(g_pt, g_v1, g_v2, g_v3)) => ~g_result
    /\ g_result = ((\A c \in 1 .. 3 : g_d[c] >= 0)
                   \/ (\A c \in 1 .. 3 : g_d[c] <= 0))

\* a clockwise triangle with the point on one of its edges, not a vertex,
\* classified as inside
C2_Witness ==
  /\ g_d # <<>>
  /\ Cross(g_v1, g_v2, g_v3) < 0
  /\ OnBoundary(g_pt, g_v1, g_v2, g_v3)
  /\ g_pt \notin {g_v1, g_v2, g_v3}
  /\ g_result

\* ======================== the spring loop on every symmetric matrix (C10)
\* the start of the kGtsamMesh case of the final switch (line 466) of a
\* call in which every triangle was skipped
InitSprings ==
  /\ mesh_optimizer_type_ = "kGtsamMesh"
  /\ pc = "springs"
  /\ \E n \in 1 .. MaxDim : adjacency_matrix \in SymmetricMatrices(n)
  /\ CallIdle /\ GeomIdle /\ RunIdle /\ FrontendIdle

NextSprings == SpringStep \/ Optimize

SpecSprings == InitSprings /\ [][NextSprings]_vars

\* number of spring factors with keys (a, b), in this order
SpringCount(a, b) ==
  Cardinality({n \in DOMAIN factor_graph :
                 /\ factor_graph[n].kind = "spring"
                 /\ factor_graph[n].keys = <<a, b>>})

\* C10: once the spring loop is over, every unordered pair of distinct
\* adjacent vertices has exactly one spring, with keys (i, j), j < i, taken
\* from the strictly lower-triangular half; a non-adjacent pair and a
\* diagonal entry have none; and CHECK_EQ(j, i) never fails.
C10_OneSpringPerEdge ==
  /\ abort_at # 490
  /\ ((pc = "springs" /\ sp_i >= MatDim(adjacency_matrix))
      \/ (pc = "reconstruct" /\ mesh_optimizer_type_ = "kGtsamMesh")) =>
       \A a, b \in DOMAIN adjacency_matrix :
         /\ SpringCount(a, b) =
              IF b < a /\ adjacency_matrix[a][b] = 1 THEN 1 ELSE 0
         /\ a # b => SpringCount(a, b) + SpringCount(b, a)
                       = adjacency_matrix[a][b]
         /\ SpringCount(a, a) = 0

\* the loop is over for a matrix with a diagonal entry, an adjacent pair
\* and a non-adjacent pair
C10_Witness ==
  /\ pc = "springs" /\ sp_i >= MatDim(adjacency_matrix)
  /\ MatDim(adjacency_matrix) >= 3
  /\ adjacency_matrix[0][0] = 1
  /\ adjacency_matrix[1][0] = 1
  /\ adjacency_matrix[2][0] = 0
  /\ SpringCount(1, 0) = 1

\* ================== whole calls, two runs of the program side by side (C8)
\* collectTriangleDataPoints (lines 115-167) on the first n samples of a
\* cloud, with the intrinsics K that the static of line 134 holds
RECURSIVE collectTriangleDataPoints(_, _, _, _, _)
collectTriangleDataPoints(cloud, n, cam, m, K) ==
  IF n = 0
  THEN [corresp |-> EmptyTable(m), pixel_corresp |-> EmptyTable(m),
        number_of_valid_datapoints |-> 0]
  ELSE LET t == collectTriangleDataPoints(cloud, n - 1, cam, m, K)
           px == generatePixelFromLandmarkGivenCamera(
                   cloud[n], cam.body_Pose_cam_, K)
           ks == scanTriangles(px, m, 0)
       IN [corresp |-> PushBack(t.corresp, ks, cloud[n]),
           pixel_corresp |-> PushBack(t.pixel_corresp, ks, px),
           number_of_valid_datapoints |->
             t.number_of_valid_datapoints + Cardinality(ks)]

\* result of a call: the returned mesh, or the line of the failed CHECK
CallResult(returned, mesh, line) ==
  [returned |-> returned, optimized_mesh_3d |-> mesh, abort_at |-> line]

\* keys of the spring factors of lines 479-495 for a square matrix
SpringKeys(adj) ==
  {a \in DOMAIN adj :
     \E b \in DOMAIN adj :
       \/ (inLowerHalf(a, b) /\ adj[a][b] = 1)
       \/ (inLowerHalf(b, a) /\ adj[b][a] = 1)}

\* kGtsamMesh reconstruction (lines 525-581) of the first n input polygons
RECURSIVE reconstructPolygons(_, _, _, _)
reconstructPolygons(m, n, values, K) ==
  IF n = 0 THEN <<>>
  ELSE LET poly_2d == getPolygon(m, n - 1)
           vid(c) == getVtxIdForLmkId(m, poly_2d[c].lmk_id)
           poly_3d == [c \in 1 .. 3 |->
                         Vertex3D(outputLmkId(m, poly_2d[c]),
                                  getBearingVectorFrom2DPixel(
                                    K, poly_2d[c].pos),
                                  vid(c))]
           before == reconstructPolygons(m, n - 1, values, K)
       IN IF \A c \in 1 .. 3 : vertexSolved(values, vid(c))
          THEN addPolygonToMesh(before, poly_3d)
          ELSE before

\* solveOptimalMesh from line 208 on, given the association tables and the
\* intrinsics K that the static of line 179 holds (with an optimize() that
\* returns values)
solveFromTables(type, m, t, K) ==
  LET nonSkipped ==
        {k \in 0 .. getNumberOfPolygons(m) - 1 :
           ~underConstrained(Len(t.corresp[k]))}
      dataKeys ==
        {getVtxIdForLmkId(m, getPolygon(m, k)[c].lmk_id) :
           k \in nonSkipped, c \in 1 .. 3}
  IN IF ~enoughDatapoints(t.number_of_valid_datapoints)
     THEN CallResult(FALSE, <<>>, 208)
     ELSE IF ~(MapSize(t.corresp) > 0) THEN CallResult(FALSE, <<>>, 209)
     ELSE CASE type = "kGtsamMesh" ->
                 CallResult(TRUE,
                            reconstructPolygons(
                              m, getNumberOfPolygons(m),
                              dataKeys \cup SpringKeys(getAdjacencyMatrix(m)),
                              K),
                            0)
            [] type = "kConnectedMesh" ->
                 IF setVertexPosition(<<>>, getLmkIdForVtxId(m, 0),
                                      <<0, 0, 0>>, 0).ok
                 THEN CallResult(TRUE, <<>>, 0)
                 ELSE CallResult(FALSE, <<>>, 609)
            [] type \in {"kDisconnectedMesh", "kClosedForm"} ->
                 CallResult(TRUE, <<>>, 0)
            [] OTHER ->
                 CallResult(FALSE, <<>>, IF nonSkipped # {} THEN 395 ELSE 628)

\* one whole solveOptimalMesh call (lines 169-643) on a cloud of one row and
\* three channels, in a process whose statics are st: the result and the
\* statics afterwards
solveOptimalMesh(type, in, st) ==
  LET m == in.mesh_2d
      cloud == in.noisy_point_cloud
  IN IF ~(getNumberOfPolygons(m) > 0)
     THEN [result |-> CallResult(FALSE, <<>>, 173), statics |-> st]
     ELSE IF ~(getNumberOfUniqueVertices(m) > 0)
     THEN [result |-> CallResult(FALSE, <<>>, 174), statics |-> st]
     ELSE IF ~(Len(cloud) > 3)
     THEN [result |-> CallResult(FALSE, <<>>, 176), statics |-> st]
     ELSE LET K == Cal3_S2(in.camera_params.intrinsics_)
              st2 == [collect |-> InitStatic(st.collect, K),
                      solve |-> InitStatic(st.solve, K)]
              t == collectTriangleDataPoints(
                     cloud, Len(cloud), in.camera_params, m,
                     st2.collect.value)
          IN [result |-> solveFromTables(type, m, t, st2.solve.value),
              statics |-> st2]

\* the step-by-step call ends as solveFromTables says, unless optimize()
\* threw
StepsAgreeWithSolveFromTables ==
  ((pc = "done" \/ (pc = "aborted" /\ abort_at \notin 173 .. 177
                                   /\ abort_at # 501))
   /\ mesh_optimizer_type_ \in MeshOptimizerTypes) =>
    CallResult(output.returned, output.optimized_mesh_3d, abort_at)
      = solveFromTables(mesh_optimizer_type_, mesh_2d,
                        [corresp |-> corresp,
                         pixel_corresp |-> pixel_corresp,
                         number_of_valid_datapoints |->
                           number_of_valid_datapoints],
                        static_intrinsics_solve.value)

\* two fresh processes running the same MeshOptimization configuration
InitCalls ==
  /\ mesh_optimizer_type_ \in MeshOptimizerTypes
  /\ pc = "idle"
  /\ adjacency_matrix = AdjacencyOf(0, {})
  /\ CallIdle /\ GeomIdle /\ FrontendIdle
  /\ run_static = [r \in Runs |-> [collect |-> StaticUninitialized,
                                   solve |-> StaticUninitialized]]
  /\ run_calls = [r \in Runs |-> 0]
  /\ run_last_in = [r \in Runs |-> [noisy_point_cloud |-> <<>>,
                                    camera_params |-> CamA,
                                    mesh_2d |-> MeshEmpty]]
  /\ run_last_out = [r \in Runs |-> CallResult(FALSE, <<>>, 0)]

\* spinOnce(input) in run r (lines 51-55); a failed CHECK ends the process
SpinOnce(r) ==
  /\ run_calls[r] < MaxCalls
  /\ run_last_out[r].abort_at = 0
  /\ \E in \in CallInputs :
       LET res == solveOptimalMesh(mesh_optimizer_type_, in, run_static[r])
       IN /\ run_static' = [run_static EXCEPT ![r] = res.statics]
          /\ run_last_in' = [run_last_in EXCEPT ![r] = in]
          /\ run_last_out' = [run_last_out EXCEPT ![r] = res.result]
  /\ run_calls' = [run_calls EXCEPT ![r] = @ + 1]
  /\ UNCHANGED <<callVars, geomVars, frontendVars>>

NextCalls == \E r \in Runs : SpinOnce(r)

SpecCalls == InitCalls /\ [][NextCalls]_vars

\* C8: the engine keeps no state between calls: the result of a call is
\* determined by the arguments of that call and the fixed configuration, so
\* two calls with identical arguments return identical results whatever
\* calls came before each of them.
C8_ResultDependsOnInputsOnly ==
  (/\ run_calls[1] > 0 /\ run_calls[2] > 0
   /\ run_last_in[1] = run_last_in[2]) =>
    run_last_out[1] = run_last_out[2]

\* ===================================================== input checks (C11)
\* the arguments the claim calls malformed
InvalidInput ==
  \/ getNumberOfPolygons(mesh_2d) = 0
  \/ getNumberOfUniqueVertices(mesh_2d) = 0
  \/ noisy_point_cloud.rows # 1
  \/ noisy_point_cloud.channels # 3

\* C11: input validation precedes all work.  A call whose mesh has no
\* polygon or no vertex, or whose cloud does not have one row and three
\* channels, is aborted by one of the checks of lines 173-177 before any
\* sample is read, projected or associated and before any window call: the
\* association tables, the systems and the output mesh are never produced
\* and the intrinsics statics are not even initialised.
C11_ValidationPrecedesWork ==
  (InvalidInput /\ pc # "start") =>
    /\ pc = "aborted" /\ abort_at \in 173 .. 177
    /\ i = 0 /\ lmk = <<0, 0, 0>> /\ pixel = <<0, 0, 0>>
    /\ corresp = <<>> /\ pixel_corresp = <<>>
    /\ number_of_valid_datapoints = 0
    /\ window_calls = {}
    /\ vtx_ids_to_ys = <<>> /\ factor_graph = <<>> /\ Y = <<>>
    /\ n_solves = 0 /\ reconstructed_mesh = <<>>
    /\ ~output.returned
    /\ static_intrinsics_collect = StaticUninitialized
    /\ static_intrinsics_solve = StaticUninitialized

\* a one-channel cloud on a valid mesh, debug rendering on: the call was
\* aborted by the channel check and nothing was drawn
C11_Witness ==
  /\ pc = "aborted" /\ abort_at = 177
  /\ noisy_point_cloud.channels = 1
  /\ getNumberOfPolygons(mesh_2d) > 0
  /\ debug_mode_
  /\ window_calls = {}

\* ============================================ singular local solve (C12)
\* the local system of input polygon k can be solved
LocalSystemSolvable(k) ==
  cv_solve(vtx_ids_to_bearing_vectors, PolygonVtxIds(k))

\* C12: direct strategies.  A sample whose local 3x3 system is singular is
\* skipped: no row of the global matrix (connected) and no row of the
\* per-triangle matrix Y (disconnected) belongs to such a sample.
C12_SingularSampleSkipped ==
  (mesh_optimizer_type_ \in {"kConnectedMesh", "kDisconnectedMesh"}) =>
    /\ \A n \in DOMAIN vtx_ids_to_ys :
         vtx_ids_to_ys[n].writes > 0
           => LocalSystemSolvable(vtx_ids_to_ys[n].tri)
    /\ \A n \in DOMAIN Y : LocalSystemSolvable(Y[n].tri)

\* ============================================ failed global solve (C13)
\* the terminal global solve of the call has run and has failed
GlobalSolveFailed ==
  \/ /\ mesh_optimizer_type_ = "kConnectedMesh"
     /\ n_solves = 1
     /\ ~cv_solve_QR(vtx_ids_to_ys, getNumberOfUniqueVertices(mesh_2d))
  \/ /\ mesh_optimizer_type_ = "kGtsamMesh"
     /\ (n_solves = 1 \/ abort_at = 501)
     /\ graphIndeterminate(factor_graph)

InitOutliers ==
  /\ mesh_optimizer_type_ \in MeshOptimizerTypes
  /\ debug_mode_ \in BOOLEAN
  /\ static_intrinsics_collect = StaticUninitialized
  /\ static_intrinsics_solve = StaticUninitialized
  /\ noisy_point_cloud \in
       {sh \in CloudShapes : sh.rows = 1 /\ sh.channels = 3 /\ sh.cols > 3}
  /\ camera_params = CamA
  /\ mesh_2d \in {MeshOne, MeshTwo}
  /\ pc = "start"
  /\ adjacency_matrix = AdjacencyOf(0, {})
  /\ CallLocalsInitial
  /\ GeomIdle /\ RunIdle /\ FrontendIdle

CollectOutlierPoint == CollectFrom(OutlierLandmarks)

NextOutliers ==
  \/ StartSolve
  \/ CollectOutlierPoint
  \/ CheckDatapoints
  \/ TriangleBegin
  \/ Datapoint
  \/ TriangleEnd
  \/ TrianglesDone
  \/ SpringStep
  \/ Optimize
  \/ ReconstructPolygon
  \/ ConnectedSolve
  \/ ConnectedVertex
  \/ Finish

SpecOutliers == InitOutliers /\ [][NextOutliers]_vars

\* C14: a vertex whose solved inverse depth is zero is never given a 3D
\* position: the reconstruction skips it, and with it every polygon that
\* needs it.  Stated on the factor-graph variant, whose reconstruction is
\* the one that stores positions: no vertex of the reconstructed mesh has a
\* position computed from a zero inverse depth.
C14_ZeroInverseDepthSkipped ==
  (mesh_optimizer_type_ = "kGtsamMesh") =>
    \A n \in DOMAIN reconstructed_mesh : \A c \in 1 .. 3 :
      inv_depth(factor_graph, corresp, reconstructed_mesh[n][c].var) # 0

\* depth of a sample in the camera frame
CameraDepth(l) == transformTo(camera_params.body_Pose_cam_, l)[3]

\* C15: a sample whose depth in the camera frame is zero or negative fails
\* projection and is never associated: every sample in the association
\* table has positive depth, and the matched-sample total counts no other.
C15_NonPositiveDepthNotAssociated ==
  (pc \notin {"start", "idle"} /\ corresp # <<>>) =>
    \A k \in DOMAIN corresp : \A n \in DOMAIN corresp[k] :
      CameraDepth(corresp[k][n]) > 0

\* ================================ data factors of the factor graph (C16)
\* number of data factors of sample smp of triangle k
DataFactorCount(k, smp) ==
  Cardinality({n \in DOMAIN factor_graph :
                 /\ factor_graph[n].kind = "data"
                 /\ factor_graph[n].tri = k
                 /\ factor_graph[n].sample = smp})

\* the sample loop of the call has handled sample smp of triangle k
SampleHandled(k, smp) ==
  /\ Len(corresp[k]) >= 3
  /\ \/ k < tri_idx
     \/ (k = tri_idx /\ pc = "datapoint" /\ smp < dp_idx)

\* samples of triangle k
SamplesOf(k) == 0 .. Len(corresp[k]) - 1

\* sum of the sample counts of the first n triangles that are not skipped
RECURSIVE NonSkippedSamples(_)
NonSkippedSamples(n) ==
  IF n = 0 THEN 0
  ELSE NonSkippedSamples(n - 1)
       + (IF Len(corresp[n - 1]) >= 3 THEN Len(corresp[n - 1]) ELSE 0)

\* C16: factor-graph variant.  At every point of the call each associated
\* sample of a triangle with at least 3 samples that the sample loop has
\* handled has exactly one ternary data factor, keyed on the three
\* VertexIds of its triangle in polygon order, whatever the barycentric
\* computation reported; every other sample has none and no data factor
\* belongs to anything else.  Once the triangle loop is over the number of
\* data factors is the sum of the sample counts of the non-skipped
\* triangles.
C16_OneDataFactorPerSample ==
  (mesh_optimizer_type_ = "kGtsamMesh" /\ corresp # <<>>) =>
    /\ \A k \in PolygonIndices : \A smp \in SamplesOf(k) :
         DataFactorCount(k, smp) = IF SampleHandled(k, smp) THEN 1 ELSE 0
    /\ \A n \in DOMAIN factor_graph :
         factor_graph[n].kind = "data" =>
           /\ factor_graph[n].tri \in PolygonIndices
           /\ factor_graph[n].sample \in SamplesOf(factor_graph[n].tri)
           /\ factor_graph[n].keys = PolygonVtxIds(factor_graph[n].tri)
    /\ (tri_idx = NumPolygons) =>
         Cardinality({n \in DOMAIN factor_graph :
                        factor_graph[n].kind = "data"})
           = NonSkippedSamples(NumPolygons)

\* the triangle loop is over: triangle 0 gave its 4 factors, triangle 1
\* with its single sample gave none
C16_Witness ==
  /\ mesh_optimizer_type_ = "kGtsamMesh"
  /\ pc = "springs" /\ NumPolygons = 2
  /\ Len(corresp[0]) = 4 /\ Len(corresp[1]) = 1
  /\ Cardinality({n \in DOMAIN factor_graph :
                    factor_graph[n].kind = "data"}) = 4
  /\ \A smp \in 0 .. 3 : DataFactorCount(0, smp) = 1

\* ================================ rows of the global matrix (C17)
\* rows of the global matrix that sample smp of triangle k has written
RowsOf(k, smp) ==
  {n \in DOMAIN vtx_ids_to_ys :
     /\ vtx_ids_to_ys[n].writes > 0
     /\ vtx_ids_to_ys[n].tri = k
     /\ vtx_ids_to_ys[n].sample = smp}

\* C17: connected variant.  When the global solve starts the global matrix
\* has one row per matched sample and one column per unique vertex; every
\* row has been written by exactly one sample and every matched sample has
\* written exactly one row; the row index has stayed below the row count;
\* and a row is non-zero only in the three columns of the VertexIds of the
\* triangle of its sample.
C17_GlobalMatrixRows ==
  (mesh_optimizer_type_ = "kConnectedMesh" /\ pc = "connected_solve") =>
    /\ Len(vtx_ids_to_ys) = number_of_valid_datapoints
    /\ n_datapoint <= Len(vtx_ids_to_ys)
    /\ \A n \in DOMAIN vtx_ids_to_ys :
         /\ vtx_ids_to_ys[n].writes = 1
         /\ vtx_ids_to_ys[n].tri \in PolygonIndices
         /\ vtx_ids_to_ys[n].cols
              \subseteq {PolygonVtxIds(vtx_ids_to_ys[n].tri)[c] : c \in 1 .. 3}
         /\ vtx_ids_to_ys[n].cols
              \subseteq 0 .. getNumberOfUniqueVertices(mesh_2d) - 1
    /\ \A k \in PolygonIndices : \A smp \in SamplesOf(k) :
         Cardinality(RowsOf(k, smp)) = 1

\* ================================ the association tables (C18)
\* total length of the lists of the first n triangles of a table
RECURSIVE TableTotal(_, _)
TableTotal(table, n) ==
  IF n = 0 THEN 0 ELSE TableTotal(table, n - 1) + Len(table[n - 1])

\* C18: after every step of the loop of collectTriangleDataPoints, and
\* from then on, the two association tables are parallel: for every
\* triangle index the list of samples and the list of pixels have the same
\* length and the n-th pixel is the projection of the n-th sample by the
\* intrinsics the function holds and the pose of the call; and
\* number_of_valid_datapoints is the sum of the list lengths, which is at
\* most the number of samples read so far and so at most the number of
\* points of the cloud.
C18_ParallelTables ==
  (corresp # <<>>) =>
    /\ DOMAIN corresp = PolygonIndices
    /\ DOMAIN pixel_corresp = PolygonIndices
    /\ \A k \in PolygonIndices :
         /\ Len(pixel_corresp[k]) = Len(corresp[k])
         /\ \A n \in DOMAIN corresp[k] :
              pixel_corresp[k][n] =
                generatePixelFromLandmarkGivenCamera(
                  corresp[k][n], camera_params.body_Pose_cam_,
                  static_intrinsics_collect.value)
    /\ number_of_valid_datapoints = TableTotal(corresp, NumPolygons)
    /\ number_of_valid_datapoints = TableTotal(pixel_corresp, NumPolygons)
    /\ number_of_valid_datapoints <= i
    /\ i <= noisy_point_cloud.cols

\* the loop is over on a cloud of 5 points: one was dropped, 3 went to
\* triangle 0 and 1 to triangle 1, and the lists hold different samples
C18_Witness ==
  /\ pc = "collect" /\ i = noisy_point_cloud.cols /\ i = 5
  /\ NumPolygons = 2
  /\ number_of_valid_datapoints = 4
  /\ Len(corresp[0]) = 3 /\ Len(pixel_corresp[1]) = 1
  /\ corresp[0][1] # corresp[0][2]
  /\ pixel_corresp[0][1] # pixel_corresp[0][2]

\* ================================ strategies outside the three (C19)
\* C19: a configured strategy that is not one of kDisconnectedMesh,
\* kConnectedMesh and kGtsamMesh makes the call abort: no call of such a
\* configuration, kClosedForm included, returns a mesh.
C19_UnknownStrategyAborts ==
  (mesh_optimizer_type_ \notin ThreeVariants) =>
    /\ pc # "done"
    /\ ~output.returned

\* ================================ rendering with the debug toggle off (C20)
\* C20: with debug_mode_ false the call issues no call on the
\* visualization window, under any strategy and any input.
C20_NoRenderingWithoutDebug ==
  (~debug_mode_) => window_calls = {}

\* ======================================================= MonoVisionFrontEnd
\* The monocular frontend of the same file (lines 775-1158).  A Frame is
\* kept by its id, timestamp, keyframe flag, the size of keypoints_ and the
\* number of keypoints whose landmark is not -1 (getNrValidKeypoints).  The
\* three shared pointers hold addresses of a heap of Frame objects, so that
\* two pointers to one object see each other's writes.  A gtsam::Pose3 or
\* Rot3 is an element of a small non-commutative group, the permutations
\* of 1..3, so that composing with the camera extrinsics is not the
\* identity.  Feature tracking, feature detection and RANSAC are library
\* calls: their results are drawn from every value they can return.

\* ------------------------------------------------------------------ bounds
MaxSpins == 3
MaxKeypoints == 1
MaxTime == 2

nullptr == 0
Addrs == 1 .. 3
FrameIds == 1 .. MaxSpins
Timestamps == 0 .. MaxTime

Frame(id, ts, kf, kps, nvalid) ==
  [id_ |-> id, timestamp_ |-> ts, isKeyframe_ |-> kf, keypoints_ |-> kps,
   valid |-> nvalid]

\* the content of a heap cell no pointer refers to
NoFrame == Frame(0, 0, FALSE, 0, 0)

\* the frames a MonoFrontEndInputPayload can carry: no valid landmark yet
InputFrames ==
  {Frame(id, ts, kf, kps, 0) :
     id \in FrameIds, ts \in Timestamps, kf \in BOOLEAN, kps \in 0 .. 1}

\* the frame of the n-th payload: the data provider counts the ids up
FramesOfSpin(n) == {f \in InputFrames : f.id_ = n}

\* a frame of the pipeline after the first: no keypoint extracted yet
NominalFramesOfSpin(n) == {f \in FramesOfSpin(n) : f.keypoints_ = 0}

Identity3 == <<1, 2, 3>>
Compose(p, q) == [x \in 1 .. 3 |-> p[q[x]]]
Inverse(p) == [x \in 1 .. 3 |-> CHOOSE y \in 1 .. 3 : p[y] = x]

\* mono_camera_->getBodyPoseCamRect(), a fixed extrinsic calibration
body_Pose_cam == <<2, 1, 3>>

\* pim->deltaRij() of the IMU preintegration between two frames
DeltaRotations == {Identity3, <<2, 3, 1>>}

\* the TrackingStatusPose values the tracker's RANSAC can return
RansacStatuses == {"VALID", "FEW_MATCHES"}
RansacPoses == {<<2, 3, 1>>, <<1, 3, 2>>}

\* tracker_->tracker_params_ of the configured frontends
TrackerParams ==
  {[intra_keyframe_time_ns_ |-> t, min_number_features_ |-> 0,
    useRANSAC_ |-> r, ransac_use_2point_mono_ |-> r] :
     t \in 1 .. 2, r \in BOOLEAN}

\* std::make_shared<Frame>: the lowest address no live pointer holds
alloc(live) == CHOOSE a \in Addrs : a \notin live /\
                 \A b \in Addrs : b \notin live => a <= b

\* a Frame whose last shared pointer went away is destroyed
release(h, live) == [a \in Addrs |-> IF a \in live THEN h[a] ELSE NoFrame]

NoRansac == [method |-> "none", first |-> "INVALID", second |-> Identity3]
NoEntry == [last_keyframe_timestamp_ |-> 0, keyframe_count_ |-> 0,
            mono_frame_lkf_ |-> nullptr, frame_count_ |-> 0,
            lkf_T_k_mono_ |-> Identity3]
NoFeOutput == [returned |-> FALSE, spin |-> "none", is_keyframe |-> FALSE,
               status |-> "INVALID", relative_pose |-> Identity3,
               frame_lkf |-> NoFrame, measurements |-> 0]

\* getRelativePoseBody(), lines 831-835
getRelativePoseBody(summary) ==
  Compose(body_Pose_cam, Compose(summary.lkf_T_k_mono_,
                                 Inverse(body_Pose_cam)))

\* members of the VisionFrontEnd base class after its construction
VisionFrontEndInitial ==
  /\ frontend_state_ = "Bootstrap"
  /\ frame_count_ = 0 /\ keyframe_count_ = 0
  /\ last_keyframe_timestamp_ = 0

SpinLocalsInitial ==
  /\ cur_frame = NoFrame /\ keyframe_R_cur_frame = Identity3
  /\ nr_valid_features = 0 /\ status_pose_mono = NoRansac
  /\ smart_mono_measurements = 0 /\ at_entry = NoEntry

\* a constructed MonoVisionFrontEnd, lines 800-825; the default
\* TrackerStatusSummary holds some status and the default gtsam::Pose3
InitFrontend ==
  /\ VisionFrontEndInitial
  /\ mono_frame_k_ = nullptr /\ mono_frame_km1_ = nullptr
  /\ mono_frame_lkf_ = nullptr
  /\ keyframe_R_ref_frame_ = Identity3
  /\ tracker_params_ \in TrackerParams
  /\ \E st \in {"INVALID", "VALID"} :
       tracker_status_summary_ =
         [kfTrackingStatus_mono_ |-> st, kfTrackingStatus_stereo_ |-> st,
          lkf_T_k_mono_ |-> Identity3]
  /\ last_valid_pose = Identity3
  /\ heap = [a \in Addrs |-> NoFrame]
  /\ fe_pc = "idle" /\ fe_abort_at = 0 /\ fe_output = NoFeOutput
  /\ SpinLocalsInitial
  /\ n_spins = 0 /\ n_bootstrapped = 0
  /\ mesh_optimizer_type_ = "kGtsamMesh" /\ pc = "idle"
  /\ adjacency_matrix = AdjacencyOf(0, {})
  /\ CallIdle /\ GeomIdle /\ RunIdle

\* a failed glog CHECK of the frontend at the given source line
FeAbort(line) == fe_pc' = "aborted" /\ fe_abort_at' = line

\* plausible slip: bootstrapSpin does not check the state
bootstrapAllowed_always(st) == TRUE

\* CHECK(frontend_state_ == FrontendState::Bootstrap), line 839
bootstrapAllowed(st) == st = "Bootstrap"

\* CHECK(frontend_state_ == FrontendState::Nominal), line 863
nominalAllowed(st) == st = "Nominal"

\* ------------------ bootstrapSpin with processFirstFrame, lines 837-859 and
\* ------------------ 964-986
BootstrapSpin ==
  /\ fe_pc = "idle" /\ n_spins < MaxSpins
  /\ n_spins' = n_spins + 1
  /\ \E first_frame \in FramesOfSpin(n_spins + 1), detected \in 0 .. MaxKeypoints :
       LET a == alloc({mono_frame_km1_, mono_frame_lkf_})
       IN IF ~bootstrapAllowed(frontend_state_)
          THEN /\ FeAbort(839)
               /\ UNCHANGED <<memberVars, fe_output, n_bootstrapped>>
          ELSE IF first_frame.keypoints_ # 0
          THEN \* CHECK_EQ(mono_frame_k_->keypoints_.size(), 0), line 972
               /\ mono_frame_k_' = a
               /\ heap' = [heap EXCEPT
                             ![a] = [first_frame EXCEPT !.isKeyframe_ = TRUE]]
               /\ last_keyframe_timestamp_' = first_frame.timestamp_
               /\ FeAbort(972)
               /\ UNCHANGED <<frontend_state_, frame_count_, keyframe_count_,
                              mono_frame_km1_, mono_frame_lkf_,
                              keyframe_R_ref_frame_, tracker_status_summary_,
                              tracker_params_, fe_output, n_bootstrapped>>
          ELSE LET k == [first_frame EXCEPT !.isKeyframe_ = TRUE,
                                            !.keypoints_ = detected,
                                            !.valid = detected]
               IN /\ last_keyframe_timestamp_' = first_frame.timestamp_
                  /\ mono_frame_km1_' = a
                  /\ mono_frame_lkf_' = a
                  /\ mono_frame_k_' = nullptr
                  /\ heap' = release([heap EXCEPT ![a] = k], {a})
                  /\ frame_count_' = frame_count_ + 1
                  /\ frontend_state_' = "Nominal"
                  /\ fe_output' =
                       [returned |-> TRUE, spin |-> "bootstrap",
                        is_keyframe |-> k.isKeyframe_,
                        status |-> "DISABLED",
                        relative_pose |->
                          getRelativePoseBody(tracker_status_summary_),
                        frame_lkf |-> k, measurements |-> 0]
                  /\ n_bootstrapped' = n_bootstrapped + 1
                  /\ UNCHANGED <<keyframe_count_, keyframe_R_ref_frame_,
                                 tracker_status_summary_, tracker_params_,
                                 fe_pc, fe_abort_at>>
  /\ UNCHANGED <<cur_frame, keyframe_R_cur_frame, nr_valid_features,
                 status_pose_mono, smart_mono_measurements, at_entry,
                 last_valid_pose, callVars, geomVars, runVars>>

\* ------- nominalSpin up to the feature tracking of processFrame, lines
\* ------- 861-897 and 988-1018
NominalSpin ==
  /\ fe_pc = "idle" /\ n_spins < MaxSpins
  /\ n_spins' = n_spins + 1
  /\ IF ~nominalAllowed(frontend_state_)
     THEN /\ FeAbort(863)
          /\ UNCHANGED <<memberVars, cur_frame, keyframe_R_cur_frame,
                         at_entry>>
     ELSE \E in \in NominalFramesOfSpin(n_spins + 1),
             deltaRij \in DeltaRotations,
             tracked \in 0 .. heap[mono_frame_km1_].valid :
            LET a == alloc({mono_frame_km1_, mono_frame_lkf_})
            IN /\ cur_frame' = in
               /\ keyframe_R_cur_frame' =
                    Compose(Inverse(body_Pose_cam),
                            Compose(deltaRij, body_Pose_cam))
               /\ mono_frame_k_' = a
               /\ heap' = [heap EXCEPT ![a] = [in EXCEPT
                                                 !.keypoints_ = tracked,
                                                 !.valid = tracked]]
               /\ tracker_status_summary_' =
                    [tracker_status_summary_ EXCEPT
                       !.kfTrackingStatus_mono_ = "INVALID",
                       !.kfTrackingStatus_stereo_ = "INVALID"]
               /\ at_entry' =
                    [last_keyframe_timestamp_ |-> last_keyframe_timestamp_,
                     keyframe_count_ |-> keyframe_count_,
                     mono_frame_lkf_ |-> mono_frame_lkf_,
                     frame_count_ |-> frame_count_,
                     lkf_T_k_mono_ |-> tracker_status_summary_.lkf_T_k_mono_]
               /\ fe_pc' = "decide"
               /\ UNCHANGED <<frontend_state_, frame_count_, keyframe_count_,
                              last_keyframe_timestamp_, mono_frame_km1_,
                              mono_frame_lkf_, keyframe_R_ref_frame_,
                              tracker_params_, fe_abort_at>>
  /\ UNCHANGED <<fe_output, nr_valid_features, status_pose_mono,
                 smart_mono_measurements, n_bootstrapped, last_valid_pose,
                 callVars, geomVars, runVars>>

\* mono_frame_k_->timestamp_ - last_keyframe_timestamp_ >=
\* intra_keyframe_time_ns_, lines 1022-1024
maxTimeElapsed(timestamp, last, intra) == timestamp - last >= intra

\* nr_valid_features <= min_number_features_, lines 1026-1027
nrFeaturesLow(nr, min) == nr <= min

\* plausible slip: a frame flagged by the user is not forced to a keyframe
keyframeCondition_ignoresFlag(max_time_elapsed, nr_features_low, flagged) ==
  max_time_elapsed \/ nr_features_low

\* the condition of the keyframe branch, line 1031
keyframeCondition(max_time_elapsed, nr_features_low, flagged) ==
  max_time_elapsed \/ nr_features_low \/ flagged

\* ------------------------- processFrame, keyframe decision, lines 1020-1063
\* ------------------------- and 1086-1089
DecideKeyframe ==
  /\ fe_pc = "decide"
  /\ LET k == heap[mono_frame_k_]
         max_time_elapsed ==
           maxTimeElapsed(k.timestamp_, last_keyframe_timestamp_,
                          tracker_params_.intra_keyframe_time_ns_)
         nr_features_low ==
           nrFeaturesLow(k.valid, tracker_params_.min_number_features_)
     IN /\ nr_valid_features' = k.valid
        /\ IF keyframeCondition(max_time_elapsed, nr_features_low,
                                k.isKeyframe_)
           THEN \E detected \in 0 .. (MaxKeypoints - k.keypoints_) :
                  /\ last_keyframe_timestamp_' = k.timestamp_
                  /\ keyframe_count_' = keyframe_count_ + 1
                  /\ heap' = [heap EXCEPT ![mono_frame_k_] =
                                [k EXCEPT !.isKeyframe_ = TRUE,
                                          !.keypoints_ = @ + detected,
                                          !.valid = @ + detected]]
                  /\ IF tracker_params_.useRANSAC_
                     THEN /\ fe_pc' = "ransac"
                          /\ UNCHANGED tracker_status_summary_
                     ELSE /\ tracker_status_summary_' =
                               [tracker_status_summary_ EXCEPT
                                  !.kfTrackingStatus_mono_ = "DISABLED",
                                  !.kfTrackingStatus_stereo_ = "DISABLED"]
                          /\ fe_pc' = "bookkeeping"
           ELSE /\ heap' = [heap EXCEPT ![mono_frame_k_] =
                              [k EXCEPT !.isKeyframe_ = FALSE]]
                /\ fe_pc' = "bookkeeping"
                /\ UNCHANGED <<last_keyframe_timestamp_, keyframe_count_,
                               tracker_status_summary_>>
  /\ UNCHANGED <<frontend_state_, frame_count_, mono_frame_k_,
                 mono_frame_km1_, mono_frame_lkf_, keyframe_R_ref_frame_,
                 tracker_params_, fe_abort_at, fe_output, cur_frame,
                 keyframe_R_cur_frame, status_pose_mono,
                 smart_mono_measurements, historyVars, callVars, geomVars,
                 runVars>>

\* plausible slip: the pose of every RANSAC result is stored
poseAfterRansac_always(status, pose, old) == pose

\* the guarded store into lkf_T_k_mono_, lines 1127-1129
poseAfterRansac(status, pose, old) == IF status = "VALID" THEN pose ELSE old

Min(a, b) == IF a <= b THEN a ELSE b

\* --------------------------------- outlierRejectionMono, lines 1105-1130;
\* --------------------------------- the tracker marks the outliers of both
\* --------------------------------- frames as invalid
OutlierRejectionMono ==
  /\ fe_pc = "ransac"
  /\ \E status \in RansacStatuses, pose \in RansacPoses,
        removed \in 0 .. Min(heap[mono_frame_lkf_].valid,
                             heap[mono_frame_k_].valid) :
       /\ status_pose_mono' =
            [method |-> IF /\ tracker_params_.ransac_use_2point_mono_
                           /\ keyframe_R_cur_frame # Identity3
                        THEN "2point" ELSE "5point",
             first |-> status, second |-> pose]
       /\ tracker_status_summary_' =
            [tracker_status_summary_ EXCEPT
               !.kfTrackingStatus_mono_ = status,
               !.lkf_T_k_mono_ = poseAfterRansac(status, pose, @)]
       /\ heap' = [a \in Addrs |->
                     IF a \in {mono_frame_lkf_, mono_frame_k_}
                     THEN [heap[a] EXCEPT !.valid = @ - removed]
                     ELSE heap[a]]
       /\ last_valid_pose' = IF status = "VALID" THEN pose
                             ELSE last_valid_pose
  /\ fe_pc' = "bookkeeping"
  /\ UNCHANGED <<frontend_state_, frame_count_, keyframe_count_,
                 last_keyframe_timestamp_, mono_frame_k_, mono_frame_km1_,
                 mono_frame_lkf_, keyframe_R_ref_frame_, tracker_params_,
                 fe_abort_at, fe_output, cur_frame, keyframe_R_cur_frame,
                 nr_valid_features, smart_mono_measurements, at_entry,
                 n_spins, n_bootstrapped, callVars, geomVars, runVars>>

\* plausible slip: the last-keyframe pointer is not moved to the new keyframe
lastKeyframeAfter_stale(is_keyframe, frame_k, frame_lkf) == frame_lkf

\* mono_frame_lkf_ = mono_frame_k_ in the keyframe branch, line 1079
lastKeyframeAfter(is_keyframe, frame_k, frame_lkf) ==
  IF is_keyframe THEN frame_k ELSE frame_lkf

\* ------------------------ processFrame, frame bookkeeping, lines 1079-1102
FinishFrame ==
  /\ fe_pc = "bookkeeping"
  /\ LET k == heap[mono_frame_k_]
         lkf == lastKeyframeAfter(k.isKeyframe_, mono_frame_k_,
                                  mono_frame_lkf_)
     IN /\ mono_frame_lkf_' = lkf
        /\ smart_mono_measurements' = IF k.isKeyframe_ THEN k.valid ELSE 0
        /\ keyframe_R_ref_frame_' = IF k.isKeyframe_ THEN Identity3
                                    ELSE keyframe_R_cur_frame
        /\ mono_frame_km1_' = mono_frame_k_
        /\ mono_frame_k_' = nullptr
        /\ heap' = release(heap, {lkf, mono_frame_k_})
  /\ frame_count_' = frame_count_ + 1
  /\ fe_pc' = "checks"
  /\ UNCHANGED <<frontend_state_, keyframe_count_, last_keyframe_timestamp_,
                 tracker_status_summary_, tracker_params_, fe_abort_at,
                 fe_output, cur_frame, keyframe_R_cur_frame,
                 nr_valid_features, status_pose_mono, historyVars, callVars,
                 geomVars, runVars>>

\* the first CHECK of lines 898-906 that fails, 0 when all hold
failedCheck(frame_k, km1, lkf) ==
  IF frame_k # nullptr THEN 898
  ELSE IF ~km1.isKeyframe_ THEN 0
  ELSE IF lkf.timestamp_ # km1.timestamp_ THEN 903
  ELSE IF lkf.id_ # km1.id_ THEN 904
  ELSE IF ~lkf.isKeyframe_ THEN 906
  ELSE 0

\* ------------------ nominalSpin after processFrame returned, lines 898-961
NominalReturn ==
  /\ fe_pc = "checks"
  /\ LET km1 == heap[mono_frame_km1_]
         lkf == heap[mono_frame_lkf_]
         failed == failedCheck(mono_frame_k_, km1, lkf)
     IN IF failed # 0
        THEN /\ FeAbort(failed)
             /\ UNCHANGED <<fe_output, cur_frame, keyframe_R_cur_frame,
                            nr_valid_features, status_pose_mono,
                            smart_mono_measurements, at_entry>>
        ELSE /\ fe_output' =
                  [returned |-> TRUE, spin |-> "nominal",
                   is_keyframe |-> km1.isKeyframe_,
                   status |-> IF km1.isKeyframe_
                              THEN tracker_status_summary_
                                     .kfTrackingStatus_mono_
                              ELSE "INVALID",
                   relative_pose |->
                     getRelativePoseBody(tracker_status_summary_),
                   frame_lkf |-> lkf,
                   measurements |-> smart_mono_measurements]
             /\ fe_pc' = "idle"
             /\ cur_frame' = NoFrame /\ keyframe_R_cur_frame' = Identity3
             /\ nr_valid_features' = 0 /\ status_pose_mono' = NoRansac
             /\ smart_mono_measurements' = 0 /\ at_entry' = NoEntry
             /\ UNCHANGED fe_abort_at
  /\ UNCHANGED <<memberVars, n_spins, n_bootstrapped, last_valid_pose,
                 callVars, geomVars, runVars>>

NextFrontend ==
  \/ BootstrapSpin
  \/ NominalSpin
  \/ DecideKeyframe
  \/ OutlierRejectionMono
  \/ FinishFrame
  \/ NominalReturn

SpecFrontend == InitFrontend /\ [][NextFrontend]_vars

\* ================================================ frontend state machine (C21)
\* a step in which a bootstrapSpin call returns
BootstrapReturns == n_bootstrapped' = n_bootstrapped + 1

\* a step in which nominalSpin passes its state check and enters processFrame
NominalEnters == fe_pc = "idle" /\ fe_pc' = "decide"

\* a step in which nominalSpin fails its state check
NominalRefused == fe_abort_at = 0 /\ fe_abort_at' = 863

C21_Step ==
  /\ BootstrapReturns =>
       frontend_state_ = "Bootstrap" /\ frontend_state_' = "Nominal"
  /\ NominalEnters => frontend_state_ = "Nominal"
  /\ frontend_state_ = "Nominal" => frontend_state_' = "Nominal"
  /\ n_bootstrapped' <= 1
  /\ (NominalSpin /\ n_bootstrapped = 0) => NominalRefused
  /\ NominalRefused => n_bootstrapped = 0

\* C21: bootstrapSpin returns only when called in state Bootstrap and leaves
\* the state Nominal; nominalSpin proceeds only in state Nominal; once
\* Nominal the state stays Nominal over every step of every spin, so
\* bootstrapSpin returns at most once, and a nominalSpin called before the
\* first bootstrapSpin returned aborts at its state check (and only such a
\* call does).
C21_FrontendStateMachine == [][C21_Step]_vars

\* a second bootstrapSpin was called after the first returned, and aborted
C21_Witness ==
  /\ n_bootstrapped = 1 /\ frontend_state_ = "Nominal"
  /\ fe_abort_at = 839

\* ============================================ frontend keyframe invariant (C22)
\* processFirstFrame returned and no processFrame call is running
BetweenFrames == n_bootstrapped >= 1 /\ fe_pc \in {"idle", "checks"}

\* the CHECKs of nominalSpin after processFrame, lines 898 and 903-906
KeyframeChecks == {898, 903, 904, 905, 906}

\* C22: after processFirstFrame and after every processFrame call the
\* current-frame pointer mono_frame_k_ is null, mono_frame_lkf_ points to a
\* frame flagged as keyframe, and when the last processed frame
\* mono_frame_km1_ is a keyframe it is the very object mono_frame_lkf_
\* points to (hence same id and timestamp); no CHECK of lines 898-906 ever
\* fails.
C22_KeyframeInvariant ==
  /\ BetweenFrames =>
       /\ mono_frame_k_ = nullptr
       /\ mono_frame_lkf_ # nullptr /\ mono_frame_km1_ # nullptr
       /\ heap[mono_frame_lkf_].isKeyframe_
       /\ heap[mono_frame_km1_].isKeyframe_ =>
            /\ mono_frame_km1_ = mono_frame_lkf_
            /\ heap[mono_frame_km1_].id_ = heap[mono_frame_lkf_].id_
            /\ heap[mono_frame_km1_].timestamp_ =
                 heap[mono_frame_lkf_].timestamp_
  /\ fe_abort_at \notin KeyframeChecks

\* processFrame returned from a keyframe that followed a non-keyframe: the
\* last-keyframe pointer moved from the first frame to the third
C22_Witness ==
  /\ fe_pc = "checks" /\ frame_count_ = 3 /\ keyframe_count_ = 1
  /\ heap[mono_frame_km1_].isKeyframe_
  /\ heap[mono_frame_lkf_].id_ = 3

\* ==================================================== keyframe decision (C23)
\* processFrame returned and nominalSpin has not yet
ProcessFrameReturned == fe_pc = "checks"

\* the frame the returned processFrame call was given, as it is now
ProcessedFrame == heap[mono_frame_km1_]

TimeElapsedSinceKeyframe ==
  ProcessedFrame.timestamp_ - at_entry.last_keyframe_timestamp_ >=
    tracker_params_.intra_keyframe_time_ns_

FewFeaturesTracked ==
  nr_valid_features <= tracker_params_.min_number_features_

ShouldBeKeyframe ==
  TimeElapsedSinceKeyframe \/ FewFeaturesTracked \/ cur_frame.isKeyframe_

\* C23: when processFrame returns, the frame it processed is a keyframe if
\* and only if its timestamp minus the last_keyframe_timestamp_ of the entry
\* is at least intra_keyframe_time_ns_, or its number of valid keypoints
\* after tracking is at most min_number_features_, or it arrived flagged as
\* keyframe.  If so last_keyframe_timestamp_ is its timestamp,
\* keyframe_count_ grew by one and mono_frame_lkf_ points to it; if not the
\* three are as at entry and the returned measurements are empty.
\* frame_count_ grew by one either way.
C23_KeyframeDecision ==
  ProcessFrameReturned =>
    /\ ProcessedFrame.isKeyframe_ <=> ShouldBeKeyframe
    /\ ShouldBeKeyframe =>
         /\ last_keyframe_timestamp_ = ProcessedFrame.timestamp_
         /\ keyframe_count_ = at_entry.keyframe_count_ + 1
         /\ mono_frame_lkf_ = mono_frame_km1_
    /\ ~ShouldBeKeyframe =>
         /\ last_keyframe_timestamp_ = at_entry.last_keyframe_timestamp_
         /\ keyframe_count_ = at_entry.keyframe_count_
         /\ mono_frame_lkf_ = at_entry.mono_frame_lkf_
         /\ smart_mono_measurements = 0
    /\ frame_count_ = at_entry.frame_count_ + 1

\* a frame became a keyframe only because it arrived flagged
C23_Witness ==
  /\ ProcessFrameReturned
  /\ cur_frame.isKeyframe_
  /\ ~TimeElapsedSinceKeyframe /\ ~FewFeaturesTracked
  /\ ProcessedFrame.isKeyframe_

\* ================================================== stored relative pose (C24)
\* the status the latest processFrame call determined for its frame
StatusOfLatestFrame ==
  IF ~ProcessedFrame.isKeyframe_ THEN "INVALID"
  ELSE IF tracker_params_.useRANSAC_ THEN status_pose_mono.first
  ELSE "DISABLED"

\* the latest processFrame call ran a RANSAC whose status is VALID
LatestRansacValid ==
  /\ ProcessedFrame.isKeyframe_ /\ tracker_params_.useRANSAC_
  /\ status_pose_mono.first = "VALID"

\* what getRelativePoseBody returns when the stored pose is p
InBodyFrame(p) ==
  Compose(body_Pose_cam, Compose(p, Inverse(body_Pose_cam)))

C24_State ==
  /\ getRelativePoseBody(tracker_status_summary_) =
       InBodyFrame(last_valid_pose)
  /\ (fe_pc = "idle" /\ fe_output.returned) =>
       fe_output.relative_pose = InBodyFrame(last_valid_pose)
  /\ ProcessFrameReturned =>
       /\ tracker_status_summary_.kfTrackingStatus_mono_ =
            StatusOfLatestFrame
       /\ tracker_status_summary_.lkf_T_k_mono_ =
            IF LatestRansacValid THEN status_pose_mono.second
            ELSE at_entry.lkf_T_k_mono_

C24_Step ==
  (tracker_status_summary_'.lkf_T_k_mono_ #
     tracker_status_summary_.lkf_T_k_mono_) =>
    /\ fe_pc = "ransac"
    /\ status_pose_mono'.first = "VALID"
    /\ tracker_status_summary_'.lkf_T_k_mono_ = status_pose_mono'.second

====
